---- MODULE Spec2Model ----
(***************************************************************************)
(* A model of the peer-to-peer file distribution node of src/src:          *)
(* p2p/peer.py (Peer, NeighborState), p2p/scheduler.py (Scheduler),        *)
(* p2p/storage.py (Storage, FileMeta) and peerProcess.py (PeerProcess).    *)
(*                                                                         *)
(* The specifications share the operators that model the code:             *)
(*   Spec, FairSpec   the two-peer swarm (peer 1 seed, peer 2 empty), each *)
(*             peer running PeerProcess, joined by FIFO connections;       *)
(*   TrioSpec  the three-peer swarm (peer 1 seed, peers 2 and 3 empty);    *)
(*   CoreSpec  one Peer object with its reader threads and its scheduler   *)
(*             thread interleaved statement by statement (the code takes   *)
(*             no lock), the remote peers being the environment.           *)
(*   LateSpec  the two-peer swarm with peer 2 started late;                *)
(*   ChokeSpec, WatchSpec, FaultSpec, WireSpec, StoreSpec, UploadSpec,     *)
(*   RaceSpec  the seed or an empty peer 1 with remote peers that send     *)
(*             frames of their choice: the scheduler, the supervision      *)
(*             loop, failing sends, malformed frames, the store, uploads,  *)
(*             and a reader beside the scheduler;                          *)
(*   DialSpec  peer 3 dialing remote peers that answer the handshake.      *)
(*   InterestSpec  the readers of peer 1 under the frames of a download;   *)
(*   TieSpec   the seed with two leechers whose download counters stay     *)
(*             equal, the scheduler ticking for ever;                      *)
(*   RotateSpec  the scheduler built with intervals of any ratio.          *)
(***************************************************************************)
EXTENDS Integers, Sequences, FiniteSets, TLC

(***************************************************************************)
(* Configuration (Common.cfg / PeerInfo.cfg), the end-to-end scenario of   *)
(* the specification: pieceSize 4, fileSize 10, one preferred neighbor.    *)
(***************************************************************************)
FileSize == 10
PieceSize == 4
NumberOfPreferredNeighbors == 1
UnchokingInterval == 1
OptimisticUnchokingInterval == 1
\* start(): shutdown_delay and the period of the supervision loop, seconds
ShutdownDelay == 10
PollPeriod == 2

\* PeerInfo.cfg: the peer with id SeedId has has_file = 1
SeedId == 1
has_file(p) == p = SeedId

\* CoreSpec: the peer under study and the ids of its remote peers
Me == SeedId
MaxId == 4
Ids == 1..MaxId
Remote == Ids \ {Me}
CoreRemote == {2}

\* bounds of the model
MaxQueue == 2
MaxWindow == 12

\* FileMeta.num_pieces
num_pieces == (FileSize + PieceSize - 1) \div PieceSize

Pieces == 0..(num_pieces - 1)

\* len(Storage.bitfield) = (nbits + 7) // 8, in bits
BitfieldBits == 8 * ((num_pieces + 7) \div 8)

Min(a, b) == IF a < b THEN a ELSE b

\* FileMeta.piece_len, for an index in range
piece_len(i) == Min(i * PieceSize + PieceSize, FileSize) - i * PieceSize

(***************************************************************************)
(* Storage: the local bitfield is the set of bit positions that are set.   *)
(***************************************************************************)
\* Storage.__init__: a seed sets bits 0..num_pieces-1, others start empty
InitialHave(hasFile) == IF hasFile THEN Pieces ELSE {}

\* Storage.has_piece: reads self.bitfield[byte]; an index past the last byte
\* raises IndexError (callers test HasPieceRaises first)
has_piece(have, idx) == idx \in have

HasPieceRaises(idx) == idx >= BitfieldBits

\* Storage.count_have: popcount of the bitfield
count_have(have) == Cardinality(have)

\* Peer.is_complete
is_complete(have) == count_have(have) = num_pieces

\* Storage.raw_bitfield, as a BITFIELD payload
raw_bitfield(have) == [known |-> TRUE, bits |-> have]

(***************************************************************************)
(* Messages.  A payload keeps what the handlers read: the piece index (the *)
(* first 4 bytes; NoIdx when the payload is shorter), the bitfield, the    *)
(* number of payload bytes after the index (the piece data of a PIECE).    *)
(***************************************************************************)
NoIdx == 0 - 1

Msg(t, i, b, l) == [idx |-> i, bits |-> b, type |-> t, len |-> l]

make_choke == Msg("CHOKE", NoIdx, {}, 0)
make_unchoke == Msg("UNCHOKE", NoIdx, {}, 0)
make_interested == Msg("INTERESTED", NoIdx, {}, 0)
make_not_interested == Msg("NOT_INTERESTED", NoIdx, {}, 0)
make_have(i) == Msg("HAVE", i, {}, 0)
make_bitfield(have) == Msg("BITFIELD", NoIdx, have, 0)
make_request(i) == Msg("REQUEST", i, {}, 0)
make_piece(i, l) == Msg("PIECE", i, {}, l)

\* len(msg.payload) = 4, the test of _handle_have and _handle_request
PayloadIs4(m) == m.idx # NoIdx /\ m.len = 0

(***************************************************************************)
(* NeighborState and the neighbor map.  Peer.neighbors is a dict: a        *)
(* sequence of NeighborState records in insertion order, keys unique.      *)
(***************************************************************************)
NoBitfield == [known |-> FALSE, bits |-> {}]

\* a variant of the defaults in which the remote peer does not choke us
UnchokedState(q) ==
    [peer_id |-> q,
     bitfield |-> NoBitfield,
     am_choking |-> TRUE,
     peer_choking_me |-> FALSE,
     am_interested |-> FALSE,
     peer_interested_me |-> FALSE,
     download_bytes_window |-> 0]

NeighborState(q) ==
    [peer_id |-> q,
     bitfield |-> NoBitfield,
     am_choking |-> TRUE,
     peer_choking_me |-> TRUE,
     am_interested |-> FALSE,
     peer_interested_me |-> FALSE,
     download_bytes_window |-> 0]

Keys(nbs) == {nbs[i].peer_id : i \in 1..Len(nbs)}

IndexOf(nbs, q) == CHOOSE i \in 1..Len(nbs) : nbs[i].peer_id = q

Get(nbs, q) == nbs[IndexOf(nbs, q)]

Put(nbs, n) ==
    IF n.peer_id \in Keys(nbs)
    THEN [nbs EXCEPT ![IndexOf(nbs, n.peer_id)] = n]
    ELSE Append(nbs, n)

Del(nbs, q) == SelectSeq(nbs, LAMBDA n : n.peer_id # q)

\* Peer.register_connection
register_connection(nbs, q) == Put(nbs, NeighborState(q))

\* Peer._bit_is_set: a position past the payload reads as not set
bit_is_set(bf, idx) == idx \in bf.bits

\* Peer._set_bit_in_bytes: a position past the payload leaves it unchanged
set_bit_in_bytes(bf, idx) ==
    IF idx >= BitfieldBits THEN bf ELSE [bf EXCEPT !.bits = @ \cup {idx}]

\* the indices _choose_piece_to_request and _has_something_we_want scan for
Useful(have, n) == {i \in Pieces : bit_is_set(n.bitfield, i) /\ ~has_piece(have, i)}

\* a variant of _has_something_we_want that looks at the remote bitfield only
has_any_bit(have, n) == n.bitfield.known /\ n.bitfield.bits # {}

\* Peer._has_something_we_want
has_something_we_want(have, n) == n.bitfield.known /\ Useful(have, n) # {}

\* a variant of _choose_piece_to_request that scans from the last index down
choose_last_piece(have, n) ==
    IF ~n.bitfield.known \/ Useful(have, n) = {}
    THEN NoIdx
    ELSE CHOOSE i \in Useful(have, n) : \A j \in Useful(have, n) : i >= j

\* Peer._choose_piece_to_request: first index in 0..num_pieces-1, NoIdx for None
choose_piece_to_request(have, n) ==
    IF ~n.bitfield.known \/ Useful(have, n) = {}
    THEN NoIdx
    ELSE CHOOSE i \in Useful(have, n) : \A j \in Useful(have, n) : i <= j

(***************************************************************************)
(* Peer: the message handlers.  A handler maps the neighbor map and the    *)
(* local bitfield to their new values, the messages it sends (out, in      *)
(* order, each with the neighbor whose connection it is sent on) and       *)
(* whether it raised (exc): an exception leaves on_message and ends the    *)
(* reader loop of handle_peer_messages.                                    *)
(***************************************************************************)
Result(nbs, have, out, exc) == [have |-> have, nbs |-> nbs, out |-> out, exc |-> exc]

To(q, m) == [to |-> q, msg |-> m]

SetN(nbs, n) == [nbs EXCEPT ![IndexOf(nbs, n.peer_id)] = n]

\* Peer._request_next_piece
request_next_piece(nbs, have, q) ==
    LET n == Get(nbs, q)
        piece_index == choose_piece_to_request(have, n)
    IN  IF n.peer_choking_me \/ ~n.bitfield.known
        THEN Result(nbs, have, <<>>, FALSE)
        ELSE IF piece_index = NoIdx
        THEN IF n.am_interested
             THEN Result(SetN(nbs, [n EXCEPT !.am_interested = FALSE]), have,
                         <<To(q, make_not_interested)>>, FALSE)
             ELSE Result(nbs, have, <<>>, FALSE)
        ELSE Result(nbs, have, <<To(q, make_request(piece_index))>>, FALSE)

\* Peer._handle_choke
handle_choke(nbs, have, q) ==
    Result(SetN(nbs, [Get(nbs, q) EXCEPT !.peer_choking_me = TRUE]), have, <<>>, FALSE)

\* Peer._handle_unchoke
handle_unchoke(nbs, have, q) ==
    request_next_piece(SetN(nbs, [Get(nbs, q) EXCEPT !.peer_choking_me = FALSE]), have, q)

\* Peer._handle_interested
handle_interested(nbs, have, q) ==
    Result(SetN(nbs, [Get(nbs, q) EXCEPT !.peer_interested_me = TRUE]), have, <<>>, FALSE)

\* Peer._handle_not_interested
handle_not_interested(nbs, have, q) ==
    Result(SetN(nbs, [Get(nbs, q) EXCEPT !.peer_interested_me = FALSE]), have, <<>>, FALSE)

\* Peer._handle_have: the remote bitfield is updated only when one is known
handle_have(nbs, have, q, m) ==
    LET n == Get(nbs, q)
        n1 == IF n.bitfield.known
              THEN [n EXCEPT !.bitfield = set_bit_in_bytes(n.bitfield, m.idx)]
              ELSE n
    IN  IF ~PayloadIs4(m)
        THEN Result(nbs, have, <<>>, FALSE)
        ELSE IF HasPieceRaises(m.idx)
        THEN Result(SetN(nbs, n1), have, <<>>, TRUE)
        ELSE IF ~has_piece(have, m.idx) /\ ~n1.am_interested
        THEN Result(SetN(nbs, [n1 EXCEPT !.am_interested = TRUE]), have,
                    <<To(q, make_interested)>>, FALSE)
        ELSE Result(SetN(nbs, n1), have, <<>>, FALSE)

\* Peer._handle_bitfield
handle_bitfield(nbs, have, q, m) ==
    LET n == [Get(nbs, q) EXCEPT !.bitfield = [known |-> TRUE, bits |-> m.bits]]
    IN  IF has_something_we_want(have, n)
        THEN IF ~n.am_interested
             THEN Result(SetN(nbs, [n EXCEPT !.am_interested = TRUE]), have,
                         <<To(q, make_interested)>>, FALSE)
             ELSE Result(SetN(nbs, n), have, <<>>, FALSE)
        ELSE IF n.am_interested
             THEN Result(SetN(nbs, [n EXCEPT !.am_interested = FALSE]), have,
                         <<To(q, make_not_interested)>>, FALSE)
             ELSE Result(SetN(nbs, n), have, <<>>, FALSE)

\* a variant of _handle_request without the am_choking test
serve_request(nbs, have, q, m) ==
    IF PayloadIs4(m) /\ ~HasPieceRaises(m.idx) /\ has_piece(have, m.idx)
    THEN Result(nbs, have, <<To(q, make_piece(m.idx, piece_len(m.idx)))>>, FALSE)
    ELSE Result(nbs, have, <<>>, FALSE)

\* Peer._handle_request (Storage.read_piece returns piece_len(idx) bytes)
handle_request(nbs, have, q, m) ==
    LET n == Get(nbs, q)
    IN  IF ~PayloadIs4(m) \/ n.am_choking
        THEN Result(nbs, have, <<>>, FALSE)
        ELSE IF HasPieceRaises(m.idx)
        THEN Result(nbs, have, <<>>, TRUE)
        ELSE IF has_piece(have, m.idx)
        THEN Result(nbs, have, <<To(q, make_piece(m.idx, piece_len(m.idx)))>>, FALSE)
        ELSE Result(nbs, have, <<>>, FALSE)

\* a variant of the length test that accepts every length
AnyLength(m) == m.idx \notin Pieces

WrongLength(m) == m.idx \in Pieces /\ m.len # piece_len(m.idx)

\* Storage.write_piece raises IndexError (piece_len) on an index out of range
\* and ValueError on a wrong length
WritePieceRaises(m) == m.idx \notin Pieces \/ m.len # piece_len(m.idx)

\* Storage.write_piece / mark_have
write_piece(have, m) == have \cup {m.idx}

\* a variant of broadcast_have that stops after the first entry of the map
announce_to_first(nbs, idx) ==
    IF nbs = <<>> THEN <<>> ELSE <<To(nbs[1].peer_id, make_have(idx))>>

\* Peer.broadcast_have: one HAVE per entry of the neighbor map, in dict order
broadcast_have(nbs, idx) ==
    <<>> \o [i \in 1..Len(nbs) |-> To(nbs[i].peer_id, make_have(idx))]

\* Peer._handle_piece from the store of the counter on (lines 194-213):
\* loaded is the value of download_bytes_window the += read
piece_finish(nbs, have, q, m, loaded) ==
    LET nbs1 == SetN(nbs, [Get(nbs, q) EXCEPT !.download_bytes_window = loaded + m.len])
        haves == broadcast_have(nbs1, m.idx)
        r == request_next_piece(nbs1, have, q)
    IN  IF ~is_complete(have)
        THEN Result(r.nbs, have, haves \o r.out, FALSE)
        ELSE Result(nbs1, have, haves, FALSE)

\* Peer._handle_piece, run without interruption
handle_piece(nbs, have, q, m) ==
    IF m.idx = NoIdx
    THEN Result(nbs, have, <<>>, FALSE)
    ELSE IF WritePieceRaises(m)
    THEN Result(nbs, have, <<>>, TRUE)
    ELSE piece_finish(nbs, write_piece(have, m), q, m, Get(nbs, q).download_bytes_window)

\* Peer.on_message: a message from a peer id not in the map is ignored
on_message(nbs, have, q, m) ==
    IF q \notin Keys(nbs) THEN Result(nbs, have, <<>>, FALSE)
    ELSE CASE m.type = "CHOKE" -> handle_choke(nbs, have, q)
           [] m.type = "UNCHOKE" -> handle_unchoke(nbs, have, q)
           [] m.type = "INTERESTED" -> handle_interested(nbs, have, q)
           [] m.type = "NOT_INTERESTED" -> handle_not_interested(nbs, have, q)
           [] m.type = "HAVE" -> handle_have(nbs, have, q, m)
           [] m.type = "BITFIELD" -> handle_bitfield(nbs, have, q, m)
           [] m.type = "REQUEST" -> handle_request(nbs, have, q, m)
           [] m.type = "PIECE" -> handle_piece(nbs, have, q, m)
           [] OTHER -> Result(nbs, have, <<>>, FALSE)

(***************************************************************************)
(* Peer: the scheduler hooks, and Scheduler.                               *)
(***************************************************************************)
NoPeer == 0

SchedResult(nbs, out) == [nbs |-> nbs, out |-> out]

RECURSIVE ResendFrom(_, _, _, _)
\* a variant of the loop that signals every decision, changed or not
ResendFrom(nbs, i, preferred_set, optimistic) ==
    IF i > Len(nbs) THEN SchedResult(nbs, <<>>)
    ELSE LET n == nbs[i]
             should_unchoke == n.peer_id \in preferred_set \/ n.peer_id = optimistic
             sent == IF should_unchoke THEN <<To(n.peer_id, make_unchoke)>>
                     ELSE <<To(n.peer_id, make_choke)>>
             rest == ResendFrom([nbs EXCEPT ![i] = [n EXCEPT !.am_choking = ~should_unchoke]],
                                i + 1, preferred_set, optimistic)
         IN  SchedResult(rest.nbs, sent \o rest.out)

set_preferred_neighbors_resend(nbs, preferred_set, optimistic) ==
    ResendFrom(nbs, 1, preferred_set, optimistic)

RECURSIVE ApplyFrom(_, _, _, _)
\* the loop of set_preferred_neighbors from dict position i on
ApplyFrom(nbs, i, preferred_set, optimistic) ==
    IF i > Len(nbs) THEN SchedResult(nbs, <<>>)
    ELSE LET n == nbs[i]
             should_unchoke == n.peer_id \in preferred_set \/ n.peer_id = optimistic
             n1 == IF should_unchoke /\ n.am_choking THEN [n EXCEPT !.am_choking = FALSE]
                   ELSE IF ~should_unchoke /\ ~n.am_choking THEN [n EXCEPT !.am_choking = TRUE]
                   ELSE n
             sent == IF should_unchoke /\ n.am_choking THEN <<To(n.peer_id, make_unchoke)>>
                     ELSE IF ~should_unchoke /\ ~n.am_choking THEN <<To(n.peer_id, make_choke)>>
                     ELSE <<>>
             rest == ApplyFrom([nbs EXCEPT ![i] = n1], i + 1, preferred_set, optimistic)
         IN  SchedResult(rest.nbs, sent \o rest.out)

\* Peer.set_preferred_neighbors, with self.optimistic_unchoke_peer_id
set_preferred_neighbors(nbs, preferred_set, optimistic) ==
    ApplyFrom(nbs, 1, preferred_set, optimistic)

\* Scheduler._do_optimistic_unchoke: the candidates of random.choice
choked_peers(nbs) == {nbs[i].peer_id : i \in {j \in 1..Len(nbs) : nbs[j].am_choking}}

\* Peer.set_optimistic_unchoke: the slot is set, then the choke decisions are
\* re-applied with the currently unchoked neighbors as the preferred list
set_optimistic_unchoke(nbs, peer_id) ==
    set_preferred_neighbors(nbs, Keys(nbs) \ choked_peers(nbs), peer_id)

\* Peer.get_and_reset_download_stats: the stats, in dict order
Stats(nbs) ==
    <<>> \o [i \in 1..Len(nbs) |-> <<nbs[i].peer_id, nbs[i].download_bytes_window>>]

ResetStats(nbs) ==
    <<>> \o [i \in 1..Len(nbs) |-> [nbs[i] EXCEPT !.download_bytes_window = 0]]

RECURSIVE InsertDesc(_, _)
\* x goes after every entry with at least as many bytes: sorted() is stable,
\* also with reverse=True
InsertDesc(s, x) ==
    IF s = <<>> THEN <<x>>
    ELSE IF Head(s)[2] >= x[2] THEN <<Head(s)>> \o InsertDesc(Tail(s), x)
    ELSE <<x>> \o s

RECURSIVE SortedDesc(_)
\* sorted(stats.items(), key=lambda x: x[1], reverse=True)
SortedDesc(s) ==
    IF s = <<>> THEN <<>>
    ELSE InsertDesc(SortedDesc(SubSeq(s, 1, Len(s) - 1)), s[Len(s)])

\* a variant that takes the first entries of the stats as they are
FirstInMap(stats) ==
    {stats[i][1] : i \in 1..Min(NumberOfPreferredNeighbors, Len(stats))}

\* Scheduler._do_regular_unchoking: the preferred list, sorted_peers[:num_preferred]
Preferred(stats) ==
    LET sorted_peers == SortedDesc(stats)
    IN  {sorted_peers[i][1] : i \in 1..Min(NumberOfPreferredNeighbors, Len(sorted_peers))}

(***************************************************************************)
(* State.                                                                  *)
(***************************************************************************)
VARIABLES
    all_peers,   \* PeerProcess.all_peers: the peer ids of PeerInfo.cfg
    proc,        \* proc[p]: where the main thread of PeerProcess p is in start()
    dialIdx,     \* dialIdx[p]: position of start()'s loop in earlier_peers
    listening,   \* listening[p]: the server socket of p accepts connections
    have,        \* have[p]: Storage.bitfield of p
    neighbors,   \* neighbors[p]: Peer.neighbors of p
    optimistic,  \* optimistic[p]: Peer.optimistic_unchoke_peer_id of p
    sched,       \* sched[p]: the scheduler thread of p: pc, local preferred, clock
    th,          \* th[p][q]: the thread of p that serves the connection with q
    chan,        \* chan[p][q]: messages sent by p on its connection with q, unread
    hsIn,        \* hsIn[p][q]: peer id of the handshake frame p can read from q, or NoPeer
    conns,       \* TCP connections, <<dialer, acceptor>>
    closed,      \* closed[p][q]: p closed its socket of the connection with q
    timer,       \* timer[p]: seconds since completion_time was set, or NoTime
    had_any_neighbor,
    sigLog,      \* history: the last two CHOKE/UNCHOKE p sent on its connection with q
                 \* (kept for the connections of CoreSpec)
    uploaded,    \* history: <<p, q>> when p sent a PIECE to q
    dialFailed,  \* history: <<p, q>> when the dial of p to q was refused
    sinceReset   \* history: piece bytes p counted for its neighbor entry q since the
                 \* entry was made or the statistics were last reset

vars == <<all_peers, proc, dialIdx, listening, have, neighbors, optimistic, sched, th, chan, hsIn,
          conns, closed, timer, had_any_neighbor, sigLog, uploaded, dialFailed, sinceReset>>

NoTime == 0 - 1

\* reader / handler thread: pc "none" (no thread), "bf" (registered, BITFIELD not
\* yet sent), "loop" (in conn.receive()), "piece" (inside _handle_piece, after
\* write_piece and the read of download_bytes_window)
Idle == [msg |-> make_choke, loaded |-> 0, pc |-> "none"]

At(pcv) == [msg |-> make_choke, loaded |-> 0, pc |-> pcv]

\* scheduler thread: pc "off" (not started / stopped), "sleep", "apply" (stats
\* read, before set_preferred_neighbors), "opt" (before the optimistic check);
\* elapsed: seconds since last_optimistic
SchedAt(pcv, pref, el) == [pc |-> pcv, preferred |-> pref, elapsed |-> el, pos |-> 0]

\* start(): earlier_peers, in roster order
RECURSIVE SetToSeq(_)
SetToSeq(S) ==
    IF S = {} THEN <<>>
    ELSE LET x == CHOOSE y \in S : \A z \in S : y <= z
         IN  <<x>> \o SetToSeq(S \ {x})

\* a variant that dials every other peer of the roster
other_peers(p) == SetToSeq({q \in all_peers : q # p})

earlier_peers(p) == SetToSeq({q \in all_peers : q < p})

(***************************************************************************)
(* Sending.  Connection.send appends to the FIFO stream of the connection. *)
(* What is sent to a remote peer of CoreSpec (proc "env"), or on a         *)
(* connection the remote end has closed, is not kept.                      *)
(***************************************************************************)
Kept(p, q) == proc[q] # "env" /\ ~closed[q][p]

RECURSIVE Deliver(_, _, _)
Deliver(ch, p, out) ==
    IF out = <<>> THEN ch
    ELSE LET o == Head(out)
             ch1 == IF Kept(p, o.to)
                    THEN [ch EXCEPT ![p][o.to] = Append(@, o.msg)]
                    ELSE ch
         IN  Deliver(ch1, p, Tail(out))

Last2(s) == IF Len(s) > 2 THEN SubSeq(s, Len(s) - 1, Len(s)) ELSE s

\* the wire order of what p sends is kept in full in the two-peer swarm
Traced(p, q) == all_peers = {p, q} /\ proc[q] # "env"

RECURSIVE LogSignals(_, _, _)
LogSignals(lg, p, out) ==
    IF out = <<>> THEN lg
    ELSE LET o == Head(out)
             lg1 == IF o.msg.type \in {"CHOKE", "UNCHOKE"} /\ proc[o.to] = "env"
                    THEN [lg EXCEPT ![p][o.to] = Last2(Append(@, o.msg.type))]
                    ELSE IF Traced(p, o.to)
                    THEN [lg EXCEPT ![p][o.to] = Append(@, <<o.msg.type, o.msg.idx>>)]
                    ELSE lg
         IN  LogSignals(lg1, p, Tail(out))

\* p sends the messages of out: blocks (is not enabled) while a stream is full
Emit(p, out) ==
    /\ chan' = Deliver(chan, p, out)
    /\ \A q \in Ids : Len(chan'[p][q]) <= MaxQueue
    /\ sigLog' = LogSignals(sigLog, p, out)
    /\ uploaded' = uploaded \cup
          {<<p, out[i].to>> : i \in {j \in 1..Len(out) : out[j].msg.type = "PIECE"}}

(***************************************************************************)
(* PeerProcess: startup, handshake, reader loops, supervision.             *)
(***************************************************************************)
Running(p) == proc[p] \in {"dial", "hswait", "poll"}

\* start() lines 103-106: the server thread listens
Start(p) ==
    /\ proc[p] = "off"
    /\ proc' = [proc EXCEPT ![p] = "dial"]
    /\ listening' = [listening EXCEPT ![p] = TRUE]
    /\ dialIdx' = [dialIdx EXCEPT ![p] = 1]
    /\ UNCHANGED <<all_peers, have, neighbors, optimistic, sched, th, chan, hsIn, conns, closed,
                   timer, had_any_neighbor, sigLog, uploaded, dialFailed, sinceReset>>

\* connect_to_peer lines 243-249: connect and send the handshake; a refused
\* connection raises, is logged, and the loop of start() goes on
Dial(p) ==
    /\ proc[p] = "dial"
    /\ dialIdx[p] <= Len(earlier_peers(p))
    /\ LET q == earlier_peers(p)[dialIdx[p]]
       IN  IF listening[q]
           THEN /\ conns' = conns \cup {<<p, q>>}
                /\ hsIn' = [hsIn EXCEPT ![q][p] = p]
                /\ proc' = [proc EXCEPT ![p] = "hswait"]
                /\ UNCHANGED <<dialIdx, dialFailed>>
           ELSE /\ dialFailed' = dialFailed \cup {<<p, q>>}
                /\ dialIdx' = [dialIdx EXCEPT ![p] = @ + 1]
                /\ UNCHANGED <<conns, hsIn, proc>>
    /\ UNCHANGED <<all_peers, listening, have, neighbors, optimistic, sched, th, chan, closed,
                   timer, had_any_neighbor, sigLog, uploaded, sinceReset>>

\* handle_incoming_connection lines 207-226: read the handshake, answer it,
\* register the id it carries
Accept(p, q) ==
    /\ listening[p]
    /\ <<q, p>> \in conns
    /\ hsIn[p][q] # NoPeer
    /\ th[p][q].pc = "none"
    /\ hsIn' = [hsIn EXCEPT ![p][q] = NoPeer, ![q][p] = p]
    /\ neighbors' = [neighbors EXCEPT ![p] = register_connection(@, hsIn[p][q])]
    /\ th' = [th EXCEPT ![p][q] = At("bf")]
    /\ sigLog' = [sigLog EXCEPT ![p][q] = <<>>]
    /\ sinceReset' = [sinceReset EXCEPT ![p][q] = 0]
    /\ UNCHANGED <<all_peers, proc, dialIdx, listening, have, optimistic, sched, chan, conns, closed,
                   timer, had_any_neighbor, uploaded, dialFailed>>

\* a variant of the test that takes any id
any_handshake(remote_peer_id, expected) == TRUE

\* connect_to_peer line 257: remote_peer_id != peer_info.peer_id
handshake_matches(remote_peer_id, expected) == remote_peer_id = expected

\* connect_to_peer lines 251-272: read the answer; on a mismatch close and
\* return, else register the id the handshake carries
DialRecv(p) ==
    /\ proc[p] = "hswait"
    /\ LET q == earlier_peers(p)[dialIdx[p]]
       IN  /\ hsIn[p][q] # NoPeer
           /\ th[p][q].pc = "none"
           /\ hsIn' = [hsIn EXCEPT ![p][q] = NoPeer]
           /\ IF ~handshake_matches(hsIn[p][q], q)
              THEN /\ closed' = [closed EXCEPT ![p][q] = TRUE]
                   /\ proc' = [proc EXCEPT ![p] = "dial"]
                   /\ dialIdx' = [dialIdx EXCEPT ![p] = @ + 1]
                   /\ UNCHANGED <<neighbors, th>>
              ELSE /\ neighbors' = [neighbors EXCEPT ![p] = register_connection(@, hsIn[p][q])]
                   /\ th' = [th EXCEPT ![p][q] = At("bf")]
                   /\ UNCHANGED <<closed, proc, dialIdx>>
    /\ UNCHANGED <<all_peers, listening, have, optimistic, sched, chan, conns,
                   timer, had_any_neighbor, sigLog, uploaded, dialFailed, sinceReset>>

\* lines 228-232 and 274-283: BITFIELD when count_have() > 0, then the reader
\* loop starts; the dialing main thread goes on to the next earlier peer
SendBitfield(p, q) ==
    /\ th[p][q].pc = "bf"
    /\ Emit(p, IF count_have(have[p]) > 0
               THEN <<To(q, make_bitfield(raw_bitfield(have[p]).bits))>>
               ELSE <<>>)
    /\ th' = [th EXCEPT ![p][q] = At("loop")]
    /\ IF proc[p] = "hswait" /\ <<p, q>> \in conns
       THEN /\ proc' = [proc EXCEPT ![p] = "dial"]
            /\ dialIdx' = [dialIdx EXCEPT ![p] = @ + 1]
       ELSE UNCHANGED <<proc, dialIdx>>
    /\ UNCHANGED <<all_peers, listening, have, neighbors, optimistic, sched, hsIn, conns, closed,
                   timer, had_any_neighbor, dialFailed, sinceReset>>

\* start() lines 112-117: all earlier peers dialed; the scheduler starts and
\* the supervision loop is entered
StartScheduler(p) ==
    /\ proc[p] = "dial"
    /\ dialIdx[p] > Len(earlier_peers(p))
    /\ proc' = [proc EXCEPT ![p] = "poll"]
    /\ sched' = [sched EXCEPT ![p] = SchedAt("sleep", {}, 0)]
    /\ UNCHANGED <<all_peers, dialIdx, listening, have, neighbors, optimistic, th, chan, hsIn, conns,
                   closed, timer, had_any_neighbor, sigLog, uploaded, dialFailed, sinceReset>>

\* handle_peer_messages, finally: close, delete the neighbor entry
Cleanup(nbs, q) == IF q \in Keys(nbs) THEN Del(nbs, q) ELSE nbs

\* handle_peer_messages lines 290-306, one message; on_message runs without
\* interruption.  An exception ends the loop.
Recv(p, q) ==
    /\ th[p][q].pc = "loop"
    /\ chan[q][p] # <<>>
    /\ \E r \in {on_message(neighbors[p], have[p], q, Head(chan[q][p]))} :
       LET m == Head(chan[q][p])
           counted == m.type = "PIECE" /\ q \in Keys(neighbors[p]) /\ ~r.exc
       IN  /\ have' = [have EXCEPT ![p] = r.have]
           /\ counted => Get(r.nbs, q).download_bytes_window <= MaxWindow
           /\ sinceReset' = IF counted THEN [sinceReset EXCEPT ![p][q] = @ + m.len]
                            ELSE sinceReset
           /\ chan' = [Deliver(chan, p, r.out) EXCEPT ![q][p] = Tail(@)]
           /\ \A x \in Ids : Len(chan'[p][x]) <= MaxQueue
           /\ sigLog' = LogSignals(sigLog, p, r.out)
           /\ uploaded' = uploaded \cup
                 {<<p, r.out[i].to>> : i \in {j \in 1..Len(r.out) : r.out[j].msg.type = "PIECE"}}
           /\ IF r.exc
              THEN /\ neighbors' = [neighbors EXCEPT ![p] = Cleanup(r.nbs, q)]
                   /\ th' = [th EXCEPT ![p][q] = Idle]
                   /\ closed' = [closed EXCEPT ![p][q] = TRUE]
              ELSE /\ neighbors' = [neighbors EXCEPT ![p] = r.nbs]
                   /\ UNCHANGED <<th, closed>>
    /\ UNCHANGED <<all_peers, proc, dialIdx, listening, optimistic, sched, hsIn, conns,
                   timer, had_any_neighbor, dialFailed>>

\* conn.receive() returns None once the remote end has closed and every
\* message was read: the loop ends, the entry is deleted
ReaderEOF(p, q) ==
    /\ th[p][q].pc = "loop"
    /\ chan[q][p] = <<>>
    /\ closed[q][p]
    /\ neighbors' = [neighbors EXCEPT ![p] = Cleanup(@, q)]
    /\ th' = [th EXCEPT ![p][q] = Idle]
    /\ closed' = [closed EXCEPT ![p][q] = TRUE]
    /\ UNCHANGED <<all_peers, proc, dialIdx, listening, have, optimistic, sched, chan, hsIn, conns,
                   timer, had_any_neighbor, sigLog, uploaded, dialFailed, sinceReset>>

(***************************************************************************)
(* Scheduler._run_loop.  One tick is                                       *)
(*   stats     get_and_reset_download_stats and the sort (lines 57-61),    *)
(*   apply     set_preferred_neighbors(preferred) (line 63),               *)
(*   opt       the optimistic check (lines 48-51).                         *)
(* Ticks are UnchokingInterval apart; elapsed stands for                   *)
(* now - last_optimistic.                                                  *)
(***************************************************************************)
\* the candidates of _do_optimistic_unchoke: random.choice(choked_peers), or None
\* a variant that draws the optimistic slot from every neighbor
AnyNeighbor(nbs) == IF nbs = <<>> THEN {NoPeer} ELSE Keys(nbs)

OptChoices(nbs) == IF choked_peers(nbs) = {} THEN {NoPeer} ELSE choked_peers(nbs)

\* Scheduler._run_loop, the optimistic check: now - last_optimistic, with
\* elapsed the time from last_optimistic to the previous tick
rotation_due(elapsed, unchoking_interval, optimistic_interval) ==
    elapsed + unchoking_interval >= optimistic_interval

SchedStats(p) ==
    /\ sched[p].pc = "sleep"
    /\ sched' = [sched EXCEPT ![p] = SchedAt("apply", Preferred(Stats(neighbors[p])), @.elapsed)]
    /\ neighbors' = [neighbors EXCEPT ![p] = ResetStats(@)]
    /\ sinceReset' = [sinceReset EXCEPT ![p] =
                         [q \in Ids |-> IF q \in Keys(neighbors[p]) THEN 0 ELSE @[q]]]
    /\ UNCHANGED <<all_peers, proc, dialIdx, listening, have, optimistic, th, chan, hsIn, conns, closed,
                   timer, had_any_neighbor, sigLog, uploaded, dialFailed>>

SchedApply(p) ==
    /\ sched[p].pc = "apply"
    /\ \E r \in {set_preferred_neighbors(neighbors[p], sched[p].preferred, optimistic[p])} :
           /\ neighbors' = [neighbors EXCEPT ![p] = r.nbs]
           /\ Emit(p, r.out)
    /\ sched' = [sched EXCEPT ![p].pc = "opt"]
    /\ UNCHANGED <<all_peers, proc, dialIdx, listening, have, optimistic, th, hsIn, conns, closed,
                   timer, had_any_neighbor, dialFailed, sinceReset>>

SchedOptimistic(p) ==
    /\ sched[p].pc = "opt"
    /\ IF rotation_due(sched[p].elapsed, UnchokingInterval, OptimisticUnchokingInterval)
       THEN \E o \in OptChoices(neighbors[p]) :
               \E r \in {set_optimistic_unchoke(neighbors[p], o)} :
                   /\ optimistic' = [optimistic EXCEPT ![p] = o]
                   /\ neighbors' = [neighbors EXCEPT ![p] = r.nbs]
                   /\ Emit(p, r.out)
                   /\ sched' = [sched EXCEPT ![p] = SchedAt("sleep", @.preferred, 0)]
       ELSE /\ sched' = [sched EXCEPT ![p] =
                            SchedAt("sleep", @.preferred, @.elapsed + UnchokingInterval)]
            /\ UNCHANGED <<optimistic, neighbors, chan, sigLog, uploaded>>
    /\ UNCHANGED <<all_peers, proc, dialIdx, listening, have, th, hsIn, conns, closed,
                   timer, had_any_neighbor, dialFailed, sinceReset>>

\* one whole tick of a scheduler built with the two intervals, run without
\* interruption
TickWith(p, unchoking_interval, optimistic_interval) ==
    /\ sched[p].pc = "sleep"
    /\ \E preferred \in {Preferred(Stats(neighbors[p]))} :
       \E r1 \in {set_preferred_neighbors(ResetStats(neighbors[p]), preferred, optimistic[p])} :
       LET rotate == rotation_due(sched[p].elapsed, unchoking_interval, optimistic_interval)
       IN  IF rotate
           THEN \E o \in OptChoices(r1.nbs) :
                   \E r2 \in {set_optimistic_unchoke(r1.nbs, o)} :
                       /\ optimistic' = [optimistic EXCEPT ![p] = o]
                       /\ neighbors' = [neighbors EXCEPT ![p] = r2.nbs]
                       /\ Emit(p, r1.out \o r2.out)
                       /\ sched' = [sched EXCEPT ![p].pc = "sleep",
                                                 ![p].preferred = preferred,
                                                 ![p].elapsed = 0]
           ELSE /\ neighbors' = [neighbors EXCEPT ![p] = r1.nbs]
                /\ Emit(p, r1.out)
                /\ sched' = [sched EXCEPT ![p].pc = "sleep",
                                          ![p].preferred = preferred,
                                          ![p].elapsed = @ + unchoking_interval]
                /\ UNCHANGED optimistic
    /\ sinceReset' = [sinceReset EXCEPT ![p] =
                         [q \in Ids |-> IF q \in Keys(neighbors[p]) THEN 0 ELSE @[q]]]
    /\ UNCHANGED <<all_peers, proc, dialIdx, listening, have, th, hsIn, conns, closed,
                   timer, had_any_neighbor, dialFailed>>

\* the tick of the scheduler PeerProcess.start builds from Common.cfg
Tick(p) == TickWith(p, UnchokingInterval, OptimisticUnchokingInterval)

(***************************************************************************)
(* The supervision loop of start() and shutdown().                         *)
(***************************************************************************)
\* a variant that looks at the local file only
own_file_complete(p) == is_complete(have[p])

\* PeerProcess.check_all_peers_complete
check_all_peers_complete(p) ==
    /\ is_complete(have[p])
    /\ \A i \in 1..Len(neighbors[p]) :
          /\ neighbors[p][i].bitfield.known
          /\ \A k \in Pieces : bit_is_set(neighbors[p][i].bitfield, k)
    /\ Keys(neighbors[p]) = all_peers \ {p}

\* one iteration of the loop, lines 120-149; the break leads to shutdown(),
\* which stops the scheduler, closes every neighbor's connection and the
\* server socket
Poll(p) ==
    /\ proc[p] = "poll"
    /\ LET had == had_any_neighbor[p] \/ neighbors[p] # <<>>
           now == IF timer[p] = NoTime THEN NoTime ELSE timer[p] + PollPeriod
           armed == IF now = NoTime THEN 0 ELSE now
       IN  /\ had_any_neighbor' = [had_any_neighbor EXCEPT ![p] = had]
           /\ IF is_complete(have[p]) /\ had /\ check_all_peers_complete(p) /\ armed > ShutdownDelay
              THEN /\ proc' = [proc EXCEPT ![p] = "done"]
                   /\ sched' = [sched EXCEPT ![p].pc = "off"]
                   /\ closed' = [closed EXCEPT ![p] =
                                    [q \in Ids |-> @[q] \/ q \in Keys(neighbors[p])]]
                   /\ listening' = [listening EXCEPT ![p] = FALSE]
                   /\ th' = [th EXCEPT ![p] = [q \in Ids |-> Idle]]
                   /\ UNCHANGED timer
              ELSE /\ timer' = [timer EXCEPT ![p] =
                                   IF is_complete(have[p]) /\ had
                                   THEN IF check_all_peers_complete(p) THEN armed ELSE NoTime
                                   ELSE now]
                   /\ UNCHANGED <<proc, sched, closed, listening, th>>
    /\ UNCHANGED <<all_peers, dialIdx, have, neighbors, optimistic, chan, hsIn, conns,
                   sigLog, uploaded, dialFailed, sinceReset>>

(***************************************************************************)
(* Spec: the swarm.  Every roster peer runs PeerProcess; a peer may be     *)
(* started at any time.                                                    *)
(***************************************************************************)
Init ==
    /\ all_peers = {1, 2}
    /\ proc = [p \in Ids |-> "off"]
    /\ dialIdx = [p \in Ids |-> 1]
    /\ listening = [p \in Ids |-> FALSE]
    /\ have = [p \in Ids |-> InitialHave(has_file(p))]
    /\ neighbors = [p \in Ids |-> <<>>]
    /\ optimistic = [p \in Ids |-> NoPeer]
    /\ sched = [p \in Ids |-> SchedAt("off", {}, 0)]
    /\ th = [p \in Ids |-> [q \in Ids |-> Idle]]
    /\ chan = [p \in Ids |-> [q \in Ids |-> <<>>]]
    /\ hsIn = [p \in Ids |-> [q \in Ids |-> NoPeer]]
    /\ conns = {}
    /\ closed = [p \in Ids |-> [q \in Ids |-> FALSE]]
    /\ timer = [p \in Ids |-> NoTime]
    /\ had_any_neighbor = [p \in Ids |-> FALSE]
    /\ sigLog = [p \in Ids |-> [q \in Ids |-> <<>>]]
    /\ uploaded = {}
    /\ dialFailed = {}
    /\ sinceReset = [p \in Ids |-> [q \in Ids |-> 0]]

Next ==
    \/ \E p \in all_peers : Start(p)
    \/ \E p \in all_peers : Dial(p)
    \/ \E p \in all_peers, q \in all_peers : Accept(p, q)
    \/ \E p \in all_peers : DialRecv(p)
    \/ \E p \in all_peers, q \in all_peers : SendBitfield(p, q)
    \/ \E p \in all_peers : StartScheduler(p)
    \/ \E p \in all_peers, q \in all_peers : Recv(p, q)
    \/ \E p \in all_peers, q \in all_peers : ReaderEOF(p, q)
    \/ \E p \in all_peers : Tick(p)
    \/ \E p \in all_peers : Poll(p)

Spec == Init /\ [][Next]_vars

\* the threads of a peer: the main thread of start(), and the thread that
\* serves the connection with q (the handshake, then the reader loop)
MainThread(p) == Start(p) \/ Dial(p) \/ DialRecv(p) \/ StartScheduler(p) \/ Poll(p)

ConnThread(p, q) == Accept(p, q) \/ SendBitfield(p, q) \/ Recv(p, q) \/ ReaderEOF(p, q)

\* every peer is started, every thread keeps running, every message is read
Fairness ==
    \A p \in {1, 2} :
        /\ WF_vars(MainThread(p))
        /\ WF_vars(Tick(p))
        /\ \A q \in {1, 2} \ {p} : WF_vars(ConnThread(p, q))

FairSpec == Spec /\ Fairness

(***************************************************************************)
(* The three-peer swarm.  The sleeps of the scheduler and of the           *)
(* supervision loop are long against the handling of a message: a tick or  *)
(* a poll finds no handshake and no message under way.                     *)
(***************************************************************************)
Quiet ==
    \A x \in all_peers, y \in all_peers :
        chan[x][y] = <<>> /\ th[x][y].pc # "bf" /\ hsIn[x][y] = NoPeer

TrioInit ==
    /\ all_peers = {1, 2, 3}
    /\ proc = [p \in Ids |-> "off"]
    /\ dialIdx = [p \in Ids |-> 1]
    /\ listening = [p \in Ids |-> FALSE]
    /\ have = [p \in Ids |-> InitialHave(has_file(p))]
    /\ neighbors = [p \in Ids |-> <<>>]
    /\ optimistic = [p \in Ids |-> NoPeer]
    /\ sched = [p \in Ids |-> SchedAt("off", {}, 0)]
    /\ th = [p \in Ids |-> [q \in Ids |-> Idle]]
    /\ chan = [p \in Ids |-> [q \in Ids |-> <<>>]]
    /\ hsIn = [p \in Ids |-> [q \in Ids |-> NoPeer]]
    /\ conns = {}
    /\ closed = [p \in Ids |-> [q \in Ids |-> FALSE]]
    /\ timer = [p \in Ids |-> NoTime]
    /\ had_any_neighbor = [p \in Ids |-> FALSE]
    /\ sigLog = [p \in Ids |-> [q \in Ids |-> <<>>]]
    /\ uploaded = {}
    /\ dialFailed = {}
    /\ sinceReset = [p \in Ids |-> [q \in Ids |-> 0]]

\* TrioSpec: the peers are started in any order, at any time; the
\* supervision loops are left out
TrioNext ==
    \/ \E p \in all_peers : Start(p)
    \/ \E p \in all_peers : Dial(p)
    \/ \E p \in all_peers, q \in all_peers : Accept(p, q)
    \/ \E p \in all_peers : DialRecv(p)
    \/ \E p \in all_peers, q \in all_peers : SendBitfield(p, q)
    \/ \E p \in all_peers : StartScheduler(p)
    \/ \E p \in all_peers, q \in all_peers : Recv(p, q)
    \/ \E p \in all_peers : Quiet /\ Tick(p)

TrioSpec == TrioInit /\ [][TrioNext]_vars

\* LateSpec: the late joiner.  The seed is started first, then peer 3; peer 2
\* is started after the dial of peer 3 to it was refused and the seed has
\* sent a piece to peer 3.
LateStart(p) ==
    /\ p = 3 => listening[SeedId]
    /\ p = 2 => <<3, 2>> \in dialFailed /\ <<SeedId, 3>> \in uploaded
    /\ Start(p)

LateNext ==
    \/ \E p \in all_peers : LateStart(p)
    \/ \E p \in all_peers : Dial(p)
    \/ \E p \in all_peers, q \in all_peers : Accept(p, q)
    \/ \E p \in all_peers : DialRecv(p)
    \/ \E p \in all_peers, q \in all_peers : SendBitfield(p, q)
    \/ \E p \in all_peers : StartScheduler(p)
    \/ \E p \in all_peers, q \in all_peers : Recv(p, q)
    \/ \E p \in all_peers : Quiet /\ Tick(p)
    \/ \E p \in all_peers : Quiet /\ Poll(p)

LateMainThread(p) == LateStart(p) \/ Dial(p) \/ DialRecv(p) \/ StartScheduler(p)

\* every thread keeps running; the timers fire again and again: a tick or a
\* poll that is possible infinitely often happens
LateFairness ==
    \A p \in {1, 2, 3} :
        /\ WF_vars(LateMainThread(p))
        /\ SF_vars(Quiet /\ Tick(p))
        /\ SF_vars(Quiet /\ Poll(p))
        /\ \A q \in {1, 2, 3} \ {p} : WF_vars(ConnThread(p, q))

LateSpec == TrioInit /\ [][LateNext]_vars /\ LateFairness

(***************************************************************************)
(* CoreSpec: the Peer of Me, its reader threads and its scheduler thread,  *)
(* each step one uninterrupted stretch of a thread.  The remote peers are  *)
(* the environment: they connect, send and close at any time.              *)
(***************************************************************************)
\* what a remote peer sends
EnvMsgs == {make_piece(0, piece_len(0)), make_interested, make_request(0)}

EnvPieces == {m \in EnvMsgs : m.type = "PIECE"}

\* a remote peer connects and sends its handshake
EnvDial(q) ==
    /\ proc[q] = "env"
    /\ th[Me][q].pc = "none"
    /\ hsIn[Me][q] = NoPeer
    /\ conns' = conns \cup {<<q, Me>>}
    /\ hsIn' = [hsIn EXCEPT ![Me][q] = q]
    /\ closed' = [closed EXCEPT ![Me][q] = FALSE, ![q][Me] = FALSE]
    /\ chan' = [chan EXCEPT ![q][Me] = <<>>]
    /\ UNCHANGED <<all_peers, proc, dialIdx, listening, have, neighbors, optimistic, sched, th,
                   timer, had_any_neighbor, sigLog, uploaded, dialFailed, sinceReset>>

\* a remote peer q sends one message of M on its open connection with p
EnvSendTo(p, q, M) ==
    /\ proc[q] = "env"
    /\ th[p][q].pc # "none"
    /\ ~closed[q][p]
    /\ chan[q][p] = <<>>
    /\ \E m \in M : chan' = [chan EXCEPT ![q][p] = <<m>>]
    /\ UNCHANGED <<all_peers, proc, dialIdx, listening, have, neighbors, optimistic, sched, th,
                   hsIn, conns, closed, timer, had_any_neighbor, sigLog, uploaded, dialFailed,
                   sinceReset>>

EnvSend(q, M) == EnvSendTo(Me, q, M)

\* a remote peer closes its connection
EnvClose(q) ==
    /\ proc[q] = "env"
    /\ th[Me][q].pc # "none"
    /\ ~closed[q][Me]
    /\ closed' = [closed EXCEPT ![q][Me] = TRUE]
    /\ UNCHANGED <<all_peers, proc, dialIdx, listening, have, neighbors, optimistic, sched, th,
                   chan, hsIn, conns, timer, had_any_neighbor, sigLog, uploaded, dialFailed,
                   sinceReset>>

\* a message other than a PIECE that write_piece accepts: on_message at once
CoreRecv(p, q) ==
    /\ chan[q][p] # <<>>
    /\ Head(chan[q][p]).type = "PIECE" => WritePieceRaises(Head(chan[q][p]))
    /\ Recv(p, q)

\* _handle_piece lines 184-194: write_piece, then the read of
\* neighbor.download_bytes_window for the +=
PieceBegin(p, q) ==
    /\ th[p][q].pc = "loop"
    /\ chan[q][p] # <<>>
    /\ q \in Keys(neighbors[p])
    /\ LET m == Head(chan[q][p])
       IN  /\ m.type = "PIECE"
           /\ ~WritePieceRaises(m)
           /\ have' = [have EXCEPT ![p] = write_piece(@, m)]
           /\ th' = [th EXCEPT ![p][q] =
                        [msg |-> m,
                         loaded |-> Get(neighbors[p], q).download_bytes_window,
                         pc |-> "piece"]]
           /\ chan' = [chan EXCEPT ![q][p] = Tail(@)]
    /\ UNCHANGED <<all_peers, proc, dialIdx, listening, neighbors, optimistic, sched, hsIn, conns,
                   closed, timer, had_any_neighbor, sigLog, uploaded, dialFailed, sinceReset>>

\* _handle_piece lines 194-213: the store of the counter, broadcast_have,
\* _request_next_piece
PieceFinish(p, q) ==
    /\ th[p][q].pc = "piece"
    /\ th[p][q].loaded + th[p][q].msg.len <= MaxWindow
    /\ \E r \in {piece_finish(neighbors[p], have[p], q, th[p][q].msg, th[p][q].loaded)} :
           /\ neighbors' = [neighbors EXCEPT ![p] = r.nbs]
           /\ Emit(p, r.out)
    /\ sinceReset' = [sinceReset EXCEPT ![p][q] = @ + th[p][q].msg.len]
    /\ th' = [th EXCEPT ![p][q] = At("loop")]
    /\ UNCHANGED <<all_peers, proc, dialIdx, listening, have, optimistic, sched, hsIn, conns,
                   closed, timer, had_any_neighbor, dialFailed>>

\* Me is past start(), its scheduler is running; E are the remote peers
CoreInitSched(E, roster, mine, scheduler) ==
    /\ all_peers = roster
    /\ proc = [p \in Ids |-> IF p = Me THEN "poll" ELSE IF p \in E THEN "env" ELSE "off"]
    /\ dialIdx = [p \in Ids |-> 1]
    /\ listening = [p \in Ids |-> p = Me]
    /\ have = [p \in Ids |-> IF p = Me THEN mine ELSE InitialHave(has_file(p))]
    /\ neighbors = [p \in Ids |-> <<>>]
    /\ optimistic = [p \in Ids |-> NoPeer]
    /\ sched = [p \in Ids |-> IF p = Me THEN scheduler ELSE SchedAt("off", {}, 0)]
    /\ th = [p \in Ids |-> [q \in Ids |-> Idle]]
    /\ chan = [p \in Ids |-> [q \in Ids |-> <<>>]]
    /\ hsIn = [p \in Ids |-> [q \in Ids |-> NoPeer]]
    /\ conns = {}
    /\ closed = [p \in Ids |-> [q \in Ids |-> FALSE]]
    /\ timer = [p \in Ids |-> NoTime]
    /\ had_any_neighbor = [p \in Ids |-> FALSE]
    /\ sigLog = [p \in Ids |-> [q \in Ids |-> <<>>]]
    /\ uploaded = {}
    /\ dialFailed = {}
    /\ sinceReset = [p \in Ids |-> [q \in Ids |-> 0]]

CoreInitFrom(E, roster, mine) == CoreInitSched(E, roster, mine, SchedAt("sleep", {}, 0))

CoreInitOn(E, roster) == CoreInitFrom(E, roster, InitialHave(has_file(Me)))

CoreInitWith(E) == CoreInitOn(E, Ids)

CoreNext ==
    \/ \E q \in Remote : EnvDial(q)
    \/ \E q \in Remote : Accept(Me, q)
    \/ \E q \in Remote : SendBitfield(Me, q)
    \/ \E q \in Remote : EnvSend(q, EnvMsgs)
    \/ \E q \in Remote : CoreRecv(Me, q)
    \/ \E q \in Remote : PieceBegin(Me, q)
    \/ \E q \in Remote : PieceFinish(Me, q)
    \/ \E q \in Remote : EnvClose(q)
    \/ \E q \in Remote : ReaderEOF(Me, q)
    \/ SchedStats(Me)
    \/ SchedApply(Me)
    \/ SchedOptimistic(Me)

CoreInit == CoreInitWith(CoreRemote)

CoreSpec == CoreInit /\ [][CoreNext]_vars

(***************************************************************************)
(* ChokeSpec: the Peer of Me with every remote peer of Remote, handlers    *)
(* and scheduler ticks each run without interruption; the remote peers     *)
(* connect and send pieces.                                                *)
(***************************************************************************)
ChokeInit == CoreInitWith(Remote)

ChokeNext ==
    \/ \E q \in Remote : EnvDial(q)
    \/ \E q \in Remote : Accept(Me, q)
    \/ \E q \in Remote : SendBitfield(Me, q)
    \/ \E q \in Remote : EnvSend(q, EnvPieces)
    \/ \E q \in Remote : Recv(Me, q)
    \/ Tick(Me)

ChokeSpec == ChokeInit /\ [][ChokeNext]_vars

(***************************************************************************)
(* WatchSpec: the supervision loop of Me (the seed of a roster of three)   *)
(* with its readers; the remote peers connect, announce their pieces and   *)
(* close.                                                                  *)
(***************************************************************************)
WatchRemote == {2, 3}

WatchMsgs == {make_bitfield(Pieces), make_bitfield({0}), make_have(1), make_have(2)}

WatchInit == CoreInitOn(WatchRemote, {Me} \cup WatchRemote)

WatchNext ==
    \/ \E q \in WatchRemote : EnvDial(q)
    \/ \E q \in WatchRemote : Accept(Me, q)
    \/ \E q \in WatchRemote : SendBitfield(Me, q)
    \/ \E q \in WatchRemote : EnvSend(q, WatchMsgs)
    \/ \E q \in WatchRemote : Recv(Me, q)
    \/ \E q \in WatchRemote : EnvClose(q)
    \/ \E q \in WatchRemote : ReaderEOF(Me, q)
    \/ Poll(Me)

WatchSpec == WatchInit /\ [][WatchNext]_vars

(***************************************************************************)
(* FaultSpec: the Peer of Me with two remote peers, where a send can fail. *)
(* Connection.send is socket.sendall: once the remote end has closed, it   *)
(* can raise (or the bytes are still taken by the kernel).  Nothing in     *)
(* Peer or Scheduler catches the exception: in a reader it leaves          *)
(* on_message and ends handle_peer_messages of the connection the message  *)
(* came from, in the scheduler it leaves _run_loop and ends the thread     *)
(* (sched pc "dead").                                                      *)
(***************************************************************************)
FaultRemote == {2, 3}

\* the neighbors of p a send to which can raise
Broken(p) == {q \in Keys(neighbors[p]) : closed[q][p]}

RECURSIVE SentBefore(_, _)
\* the sends of out that precede the first one that raises
SentBefore(out, broken) ==
    IF out = <<>> THEN <<>>
    ELSE IF Head(out).to \in broken THEN <<>>
    ELSE <<Head(out)>> \o SentBefore(Tail(out), broken)

RECURSIVE ApplyUntilFailure(_, _, _, _, _)
\* the loop of set_preferred_neighbors from dict position i on: am_choking
\* is assigned before the send, a send that raises leaves the loop
ApplyUntilFailure(nbs, i, preferred_set, slot, broken) ==
    IF i > Len(nbs) THEN [nbs |-> nbs, out |-> <<>>, exc |-> FALSE]
    ELSE LET n == nbs[i]
             should_unchoke == n.peer_id \in preferred_set \/ n.peer_id = slot
             flips == (should_unchoke /\ n.am_choking) \/ (~should_unchoke /\ ~n.am_choking)
             nbs1 == IF flips THEN [nbs EXCEPT ![i].am_choking = ~should_unchoke] ELSE nbs
             sent == IF ~flips THEN <<>>
                     ELSE IF should_unchoke THEN <<To(n.peer_id, make_unchoke)>>
                     ELSE <<To(n.peer_id, make_choke)>>
         IN  IF flips /\ n.peer_id \in broken
             THEN [nbs |-> nbs1, out |-> <<>>, exc |-> TRUE]
             ELSE LET rest == ApplyUntilFailure(nbs1, i + 1, preferred_set, slot, broken)
                  IN  [nbs |-> rest.nbs, out |-> sent \o rest.out, exc |-> rest.exc]

\* handle_peer_messages, one message, where the sends of the handler can raise
FaultRecv(p, q) ==
    /\ th[p][q].pc = "loop"
    /\ chan[q][p] # <<>>
    /\ \E r \in {on_message(neighbors[p], have[p], q, Head(chan[q][p]))} :
       \E broken \in {{}, Broken(p)} :
       LET m == Head(chan[q][p])
           counted == m.type = "PIECE" /\ q \in Keys(neighbors[p]) /\ ~r.exc
           failed == \E i \in 1..Len(r.out) : r.out[i].to \in broken
       IN  /\ have' = [have EXCEPT ![p] = r.have]
           /\ counted => Get(r.nbs, q).download_bytes_window <= MaxWindow
           /\ sinceReset' = IF counted THEN [sinceReset EXCEPT ![p][q] = @ + m.len]
                            ELSE sinceReset
           /\ chan' = [Deliver(chan, p, SentBefore(r.out, broken)) EXCEPT ![q][p] = Tail(@)]
           /\ IF r.exc \/ failed
              THEN /\ neighbors' = [neighbors EXCEPT ![p] = Cleanup(r.nbs, q)]
                   /\ th' = [th EXCEPT ![p][q] = Idle]
                   /\ closed' = [closed EXCEPT ![p][q] = TRUE]
              ELSE /\ neighbors' = [neighbors EXCEPT ![p] = r.nbs]
                   /\ UNCHANGED <<th, closed>>
    /\ UNCHANGED <<all_peers, proc, dialIdx, listening, optimistic, sched, hsIn, conns,
                   timer, had_any_neighbor, sigLog, uploaded, dialFailed>>

\* one tick of _run_loop where the sends can raise
FaultTick(p) ==
    /\ sched[p].pc = "sleep"
    /\ \E broken \in {{}, Broken(p)} :
       \E preferred \in {Preferred(Stats(neighbors[p]))} :
       \E r1 \in {ApplyUntilFailure(ResetStats(neighbors[p]), 1, preferred, optimistic[p], broken)} :
           IF r1.exc
           THEN /\ neighbors' = [neighbors EXCEPT ![p] = r1.nbs]
                /\ Emit(p, r1.out)
                /\ sched' = [sched EXCEPT ![p] = SchedAt("dead", preferred, 0)]
                /\ UNCHANGED optimistic
           ELSE \E o \in OptChoices(r1.nbs) :
                \E r2 \in {ApplyUntilFailure(r1.nbs, 1, Keys(r1.nbs) \ choked_peers(r1.nbs),
                                              o, broken)} :
                    /\ optimistic' = [optimistic EXCEPT ![p] = o]
                    /\ neighbors' = [neighbors EXCEPT ![p] = r2.nbs]
                    /\ Emit(p, r1.out \o r2.out)
                    /\ sched' = [sched EXCEPT ![p] =
                                    SchedAt(IF r2.exc THEN "dead" ELSE "sleep", preferred, 0)]
    /\ sinceReset' = [sinceReset EXCEPT ![p] =
                         [q \in Ids |-> IF q \in Keys(neighbors[p]) THEN 0 ELSE @[q]]]
    /\ UNCHANGED <<all_peers, proc, dialIdx, listening, have, th, hsIn, conns, closed,
                   timer, had_any_neighbor, dialFailed>>

FaultInit == CoreInitOn(FaultRemote, {Me} \cup FaultRemote)

FaultNext ==
    \/ \E q \in FaultRemote : EnvDial(q)
    \/ \E q \in FaultRemote : Accept(Me, q)
    \/ \E q \in FaultRemote : SendBitfield(Me, q)
    \/ \E q \in FaultRemote : EnvSend(q, EnvPieces)
    \/ \E q \in FaultRemote : FaultRecv(Me, q)
    \/ \E q \in FaultRemote : EnvClose(q)
    \/ \E q \in FaultRemote : ReaderEOF(Me, q)
    \/ FaultTick(Me)

FaultSpec == FaultInit /\ [][FaultNext]_vars

(***************************************************************************)
(* WireSpec: the Peer of a peer that starts with no piece, its scheduler   *)
(* and its readers; the remote peers send well-formed and malformed        *)
(* frames, one frame in flight at a time.  Only a PIECE of a wrong length  *)
(* makes a handler raise here.                                             *)
(***************************************************************************)
WireRemote == {2, 3}

\* frames with a type outside 0..7, and HAVE / REQUEST with 5 payload bytes
BadFrames ==
    {Msg("UNKNOWN", NoIdx, {}, 0), Msg("HAVE", 1, {}, 1), Msg("REQUEST", 0, {}, 1)}

\* a PIECE frame whose data is one byte short
WrongPieces == {make_piece(0, piece_len(0) - 1)}

WireMsgs ==
    {make_piece(0, piece_len(0)), make_request(0), make_request(2), make_have(1)}
        \cup BadFrames \cup WrongPieces

\* no frame is waiting for a reader of Me
NoFrame == \A q \in Remote : chan[q][Me] = <<>>

WireInit == CoreInitFrom(WireRemote, {Me} \cup WireRemote, InitialHave(FALSE))

WireNext ==
    \/ \E q \in WireRemote : EnvDial(q)
    \/ \E q \in WireRemote : Accept(Me, q)
    \/ \E q \in WireRemote : SendBitfield(Me, q)
    \/ \E q \in WireRemote : NoFrame /\ EnvSend(q, WireMsgs)
    \/ \E q \in WireRemote : Recv(Me, q)
    \/ NoFrame /\ Tick(Me)

WireSpec == WireInit /\ [][WireNext]_vars

(***************************************************************************)
(* StoreSpec: the store of Me, which starts as a seed or empty, under      *)
(* PIECE frames with an index inside the file, past the last piece and     *)
(* past the last bit of the bitfield, of a right or wrong length.          *)
(***************************************************************************)
StoreRemote == {2, 3}

\* piece indices a frame can carry: the pieces, the unused bits of the last
\* bitfield byte, and one index past the bitfield
StoreIndices == {0, 2, num_pieces, BitfieldBits - 1, BitfieldBits}

StoreMsgs ==
    {make_piece(i, l) : i \in StoreIndices, l \in {PieceSize, piece_len(num_pieces - 1)}}

StoreInit ==
    \E hasFile \in BOOLEAN :
        CoreInitFrom(StoreRemote, {Me} \cup StoreRemote, InitialHave(hasFile))

StoreNext ==
    \/ \E q \in StoreRemote : EnvDial(q)
    \/ \E q \in StoreRemote : Accept(Me, q)
    \/ \E q \in StoreRemote : SendBitfield(Me, q)
    \/ \E q \in StoreRemote : NoFrame /\ EnvSend(q, StoreMsgs)
    \/ \E q \in StoreRemote : Recv(Me, q)

StoreSpec == StoreInit /\ [][StoreNext]_vars

(***************************************************************************)
(* UploadSpec: Me, which starts as a seed or empty, with its scheduler,    *)
(* under REQUEST frames for a piece of the file, for an unused bit of the  *)
(* bitfield and for an index past the bitfield, and a PIECE frame.         *)
(***************************************************************************)
UploadRemote == {2, 3}

Requests ==
    {make_request(i) : i \in {0, num_pieces - 1, num_pieces, BitfieldBits}}

UploadMsgs == Requests \cup {make_piece(0, piece_len(0))}

UploadInit ==
    \E hasFile \in BOOLEAN :
        CoreInitFrom(UploadRemote, {Me} \cup UploadRemote, InitialHave(hasFile))

UploadNext ==
    \/ \E q \in UploadRemote : EnvDial(q)
    \/ \E q \in UploadRemote : Accept(Me, q)
    \/ \E q \in UploadRemote : SendBitfield(Me, q)
    \/ \E q \in UploadRemote : NoFrame /\ EnvSend(q, UploadMsgs)
    \/ \E q \in UploadRemote : Recv(Me, q)
    \/ NoFrame /\ Tick(Me)

UploadSpec == UploadInit /\ [][UploadNext]_vars

(***************************************************************************)
(* InterestSpec: the readers of Me, which starts as a seed or empty, under *)
(* the frames of a download: BITFIELD (empty, with pieces, with an unused  *)
(* bit only), HAVE, UNCHOKE and well-formed PIECE frames.                  *)
(***************************************************************************)
InterestRemote == {2, 3}

Bitfields == {make_bitfield({}), make_bitfield({0, 1}), make_bitfield({num_pieces})}

Haves == {make_have(1)}

GoodPieces == {make_piece(i, piece_len(i)) : i \in {0, 1}}

InterestMsgs == Bitfields \cup Haves \cup GoodPieces \cup {make_unchoke}

InterestInit ==
    \E hasFile \in BOOLEAN :
        CoreInitFrom(InterestRemote, {Me} \cup InterestRemote, InitialHave(hasFile))

InterestNext ==
    \/ \E q \in InterestRemote : EnvDial(q)
    \/ \E q \in InterestRemote : Accept(Me, q)
    \/ \E q \in InterestRemote : SendBitfield(Me, q)
    \/ \E q \in InterestRemote : NoFrame /\ EnvSend(q, InterestMsgs)
    \/ \E q \in InterestRemote : Recv(Me, q)

InterestSpec == InterestInit /\ [][InterestNext]_vars

(***************************************************************************)
(* TieSpec: the seed Me with its scheduler and two leechers that connect,  *)
(* declare their interest, send no piece (their download counters stay     *)
(* equal) and may close.  The scheduler thread keeps ticking and the        *)
(* readers keep reading.                                                    *)
(***************************************************************************)
TieRemote == {2, 3}

TieMsgs == {make_interested}

TieInit == CoreInitOn(TieRemote, {Me} \cup TieRemote)

TieNext ==
    \/ \E q \in TieRemote : EnvDial(q)
    \/ \E q \in TieRemote : Accept(Me, q)
    \/ \E q \in TieRemote : SendBitfield(Me, q)
    \/ \E q \in TieRemote : NoFrame /\ EnvSend(q, TieMsgs)
    \/ \E q \in TieRemote : Recv(Me, q)
    \/ \E q \in TieRemote : EnvClose(q)
    \/ \E q \in TieRemote : ReaderEOF(Me, q)
    \/ Tick(Me)

TieFairness ==
    /\ WF_vars(Tick(Me))
    /\ \A q \in TieRemote : WF_vars(ConnThread(Me, q))

TieSpec == TieInit /\ [][TieNext]_vars /\ TieFairness

(***************************************************************************)
(* RotateSpec: the scheduler of the seed Me built with an unchoking and an *)
(* optimistic interval of any length up to MaxInterval, ticking exactly    *)
(* unchoking_interval apart, while two remote peers connect.               *)
(***************************************************************************)
MaxInterval == 4

Intervals == 1..MaxInterval

RotateRemote == {2, 3}

\* Scheduler.__init__: the scheduler keeps the two intervals it is built with
SchedulerWith(unchoking_interval, optimistic_interval) ==
    [pc |-> "sleep", preferred |-> {}, elapsed |-> 0, pos |-> 0,
     unchoking_interval |-> unchoking_interval,
     optimistic_interval |-> optimistic_interval]

RotateInit ==
    \E u \in Intervals, o \in Intervals :
        CoreInitSched(RotateRemote, {Me} \cup RotateRemote, InitialHave(has_file(Me)),
                      SchedulerWith(u, o))

RotateTick(p) == TickWith(p, sched[p].unchoking_interval, sched[p].optimistic_interval)

RotateNext ==
    \/ \E q \in RotateRemote : EnvDial(q)
    \/ \E q \in RotateRemote : Accept(Me, q)
    \/ \E q \in RotateRemote : SendBitfield(Me, q)
    \/ RotateTick(Me)

RotateSpec == RotateInit /\ [][RotateNext]_vars

(***************************************************************************)
(* DialSpec: PeerProcess of peer Dialer, which dials the remote peers 1    *)
(* and 2; each answers the handshake with an id of its choice, then sends  *)
(* frames.                                                                 *)
(***************************************************************************)
Dialer == 3

DialRemote == {1, 2}

DialMsgs == {make_bitfield(Pieces), make_unchoke, make_piece(0, piece_len(0))}

\* the remote peer q reads the handshake of p and answers with the id a
EnvAnswer(q, p, a) ==
    /\ proc[q] = "env"
    /\ hsIn[q][p] # NoPeer
    /\ hsIn' = [hsIn EXCEPT ![q][p] = NoPeer, ![p][q] = a]
    /\ UNCHANGED <<all_peers, proc, dialIdx, listening, have, neighbors, optimistic, sched, th,
                   chan, conns, closed, timer, had_any_neighbor, sigLog, uploaded, dialFailed,
                   sinceReset>>

DialInit ==
    /\ all_peers = DialRemote \cup {Dialer}
    /\ proc = [p \in Ids |-> IF p \in DialRemote THEN "env" ELSE "off"]
    /\ dialIdx = [p \in Ids |-> 1]
    /\ listening = [p \in Ids |-> p \in DialRemote]
    /\ have = [p \in Ids |-> InitialHave(has_file(p))]
    /\ neighbors = [p \in Ids |-> <<>>]
    /\ optimistic = [p \in Ids |-> NoPeer]
    /\ sched = [p \in Ids |-> SchedAt("off", {}, 0)]
    /\ th = [p \in Ids |-> [q \in Ids |-> Idle]]
    /\ chan = [p \in Ids |-> [q \in Ids |-> <<>>]]
    /\ hsIn = [p \in Ids |-> [q \in Ids |-> NoPeer]]
    /\ conns = {}
    /\ closed = [p \in Ids |-> [q \in Ids |-> FALSE]]
    /\ timer = [p \in Ids |-> NoTime]
    /\ had_any_neighbor = [p \in Ids |-> FALSE]
    /\ sigLog = [p \in Ids |-> [q \in Ids |-> <<>>]]
    /\ uploaded = {}
    /\ dialFailed = {}
    /\ sinceReset = [p \in Ids |-> [q \in Ids |-> 0]]

DialNext ==
    \/ Start(Dialer)
    \/ Dial(Dialer)
    \/ \E q \in DialRemote, a \in all_peers : EnvAnswer(q, Dialer, a)
    \/ DialRecv(Dialer)
    \/ \E q \in DialRemote : SendBitfield(Dialer, q)
    \/ StartScheduler(Dialer)
    \/ \E q \in DialRemote : EnvSendTo(Dialer, q, DialMsgs)
    \/ \E q \in DialRemote : Recv(Dialer, q)
    \/ Tick(Dialer)

DialSpec == DialInit /\ [][DialNext]_vars

(***************************************************************************)
(* RaceSpec: the Peer of Me (the seed) with the reader of a requesting     *)
(* neighbor and the scheduler thread interleaved statement by statement:   *)
(* _handle_request tests am_choking and has_piece, then sends the PIECE;   *)
(* the loop of set_preferred_neighbors assigns am_choking, then sends the  *)
(* CHOKE or UNCHOKE.  sched pos is the position of the loop in the dict,   *)
(* sched preferred the list the loop was called with.  sigLog is the wire  *)
(* order of CHOKE, UNCHOKE and PIECE on a connection (a run of PIECE is    *)
(* kept once).  A remote peer registers between two ticks.                 *)
(***************************************************************************)
RaceRemote == {2, 3}

\* peer 2 requests piece 0, peer 3 uploads piece 0
RaceMsgs(q) == IF q = 2 THEN {make_request(0)} ELSE {make_piece(0, piece_len(0))}

LogPiece(lg) ==
    IF lg # <<>> /\ lg[Len(lg)] = "PIECE" THEN lg ELSE Last2(Append(lg, "PIECE"))

\* the last of CHOKE / UNCHOKE in a wire log, "NONE" when it holds neither
LastSignal(lg) ==
    IF lg = <<>> THEN "NONE"
    ELSE IF lg[Len(lg)] # "PIECE" THEN lg[Len(lg)]
    ELSE IF Len(lg) = 2 THEN lg[1]
    ELSE "NONE"

\* _handle_request lines 165-177: the tests
RequestBegin(p, q) ==
    /\ th[p][q].pc = "loop"
    /\ chan[q][p] # <<>>
    /\ Head(chan[q][p]).type = "REQUEST"
    /\ q \in Keys(neighbors[p])
    /\ ~HasPieceRaises(Head(chan[q][p]).idx)
    /\ LET m == Head(chan[q][p])
           n == Get(neighbors[p], q)
       IN  th' = IF PayloadIs4(m) /\ ~n.am_choking /\ has_piece(have[p], m.idx)
                 THEN [th EXCEPT ![p][q] = [msg |-> m, loaded |-> 0, pc |-> "reply"]]
                 ELSE th
    /\ chan' = [chan EXCEPT ![q][p] = Tail(@)]
    /\ UNCHANGED <<all_peers, proc, dialIdx, listening, have, neighbors, optimistic, sched,
                   hsIn, conns, closed, timer, had_any_neighbor, sigLog, uploaded, dialFailed,
                   sinceReset>>

\* _handle_request lines 178-179: read_piece and the send of the PIECE
RequestFinish(p, q) ==
    /\ th[p][q].pc = "reply"
    /\ th' = [th EXCEPT ![p][q] = At("loop")]
    /\ chan' = Deliver(chan, p,
                       <<To(q, make_piece(th[p][q].msg.idx, piece_len(th[p][q].msg.idx)))>>)
    /\ sigLog' = [sigLog EXCEPT ![p][q] = LogPiece(@)]
    /\ uploaded' = uploaded \cup {<<p, q>>}
    /\ UNCHANGED <<all_peers, proc, dialIdx, listening, have, neighbors, optimistic, sched,
                   hsIn, conns, closed, timer, had_any_neighbor, dialFailed, sinceReset>>

\* a message other than a REQUEST: on_message at once
RaceRecv(p, q) ==
    /\ chan[q][p] # <<>>
    /\ Head(chan[q][p]).type # "REQUEST"
    /\ Recv(p, q)

\* _do_regular_unchoking lines 57-63: the stats, the sort, the call
RaceStats(p) ==
    /\ sched[p].pc = "sleep"
    /\ neighbors' = [neighbors EXCEPT ![p] = ResetStats(@)]
    /\ sched' = [sched EXCEPT ![p] =
                    [SchedAt("apply", Preferred(Stats(neighbors[p])), @.elapsed)
                        EXCEPT !.pos = 1]]
    /\ sinceReset' = [sinceReset EXCEPT ![p] =
                         [q \in Ids |-> IF q \in Keys(neighbors[p]) THEN 0 ELSE @[q]]]
    /\ UNCHANGED <<all_peers, proc, dialIdx, listening, have, optimistic, th, chan, hsIn, conns,
                   closed, timer, had_any_neighbor, sigLog, uploaded, dialFailed>>

InLoop(p) == sched[p].pc \in {"apply", "opt"} /\ sched[p].pos <= Len(neighbors[p])

\* set_preferred_neighbors lines 262-269: the decision for the neighbor
\* at pos and the assignment to am_choking
LoopFlag(p) ==
    /\ InLoop(p)
    /\ LET n == neighbors[p][sched[p].pos]
           should_unchoke == n.peer_id \in sched[p].preferred \/ n.peer_id = optimistic[p]
       IN  IF should_unchoke = n.am_choking
           THEN /\ neighbors' = [neighbors EXCEPT ![p][sched[p].pos].am_choking = ~should_unchoke]
                /\ sched' = [sched EXCEPT ![p].pc =
                                IF @ = "apply" THEN "applysend" ELSE "optsend"]
           ELSE /\ sched' = [sched EXCEPT ![p].pos = @ + 1]
                /\ UNCHANGED neighbors
    /\ UNCHANGED <<all_peers, proc, dialIdx, listening, have, optimistic, th, chan, hsIn, conns,
                   closed, timer, had_any_neighbor, sigLog, uploaded, dialFailed, sinceReset>>

\* set_preferred_neighbors lines 265 and 271: the send
LoopSend(p) ==
    /\ sched[p].pc \in {"applysend", "optsend"}
    /\ LET n == neighbors[p][sched[p].pos]
       IN  Emit(p, <<To(n.peer_id, IF n.am_choking THEN make_choke ELSE make_unchoke)>>)
    /\ sched' = [sched EXCEPT ![p].pc = IF @ = "applysend" THEN "apply" ELSE "opt",
                              ![p].pos = @ + 1]
    /\ UNCHANGED <<all_peers, proc, dialIdx, listening, have, neighbors, optimistic, th, hsIn,
                   conns, closed, timer, had_any_neighbor, dialFailed, sinceReset>>

\* the loop is over: after _do_regular_unchoking the optimistic check of
\* _run_loop and set_optimistic_unchoke up to its call of
\* set_preferred_neighbors, after that the end of the tick
LoopEnd(p) ==
    /\ sched[p].pc \in {"apply", "opt"}
    /\ sched[p].pos > Len(neighbors[p])
    /\ IF sched[p].pc = "apply"
             /\ sched[p].elapsed + UnchokingInterval >= OptimisticUnchokingInterval
       THEN \E o \in OptChoices(neighbors[p]) :
               /\ optimistic' = [optimistic EXCEPT ![p] = o]
               /\ sched' = [sched EXCEPT ![p] =
                               [SchedAt("opt", Keys(neighbors[p]) \ choked_peers(neighbors[p]), 0)
                                   EXCEPT !.pos = 1]]
       ELSE /\ sched' = [sched EXCEPT ![p] =
                            SchedAt("sleep", {},
                                    IF @.pc = "apply" THEN @.elapsed + UnchokingInterval ELSE 0)]
            /\ UNCHANGED optimistic
    /\ UNCHANGED <<all_peers, proc, dialIdx, listening, have, neighbors, th, chan, hsIn, conns,
                   closed, timer, had_any_neighbor, sigLog, uploaded, dialFailed, sinceReset>>

RaceInit == CoreInitOn(RaceRemote, {Me} \cup RaceRemote)

RaceNext ==
    \/ \E q \in RaceRemote : EnvDial(q)
    \/ \E q \in RaceRemote : sched[Me].pc = "sleep" /\ Accept(Me, q)
    \/ \E q \in RaceRemote : SendBitfield(Me, q)
    \/ \E q \in RaceRemote : EnvSend(q, RaceMsgs(q))
    \/ \E q \in RaceRemote : RaceRecv(Me, q)
    \/ \E q \in RaceRemote : RequestBegin(Me, q)
    \/ \E q \in RaceRemote : RequestFinish(Me, q)
    \/ RaceStats(Me)
    \/ LoopFlag(Me)
    \/ LoopSend(Me)
    \/ LoopEnd(Me)

RaceSpec == RaceInit /\ [][RaceNext]_vars

(***************************************************************************)
(* Properties.                                                             *)
(***************************************************************************)
AllComplete == \A p \in all_peers : is_complete(have[p])

\* C1: with every peer started and staying up, a reliable network and fair
\* scheduling, every peer of the swarm eventually holds all the pieces (here
\* even granted that the peers are started in an order in which no dial is
\* refused)
C1_Termination == [](dialFailed = {}) => <>AllComplete

AllDone == \A p \in all_peers : proc[p] = "done"

\* C2: once every peer holds the complete file, every peer, the seed
\* included, eventually finds the completion condition true for the shutdown
\* delay and shuts down (granted that no dial was refused)
C2_Shutdown == [](dialFailed = {}) => (AllComplete ~> AllDone)

\* C3: in the three-peer swarm peer 2 uploads a piece to peer 3 and peer 3
\* uploads a piece to peer 2: once every peer holds every piece (no piece
\* is requested any more) both uploads have happened
C3_Exchange == AllComplete => (<<2, 3>> \in uploaded /\ <<3, 2>> \in uploaded)

\* C4: peer 2, started after the dial of peer 3 to it was refused,
\* eventually holds every piece and then terminates
C4_LateJoiner == <>(is_complete(have[2]) /\ proc[2] = "done")

\* the unchoked neighbors of p
Unchoked(p) == Keys(neighbors[p]) \ choked_peers(neighbors[p])

UnchokedIsPreferredOrOptimistic(p) ==
    Unchoked(p) = Keys(neighbors[p]) \cap (sched[p].preferred \cup {optimistic[p]})

\* C5: after a tick, set_preferred_neighbors(P) then set_optimistic_unchoke(o),
\* a neighbor is unchoked if and only if it is in P or is o
C5_UnchokedSet == [][Tick(Me) => UnchokedIsPreferredOrOptimistic(Me)']_vars

\* C6: after every completed tick at most NumberOfPreferredNeighbors + 1
\* neighbors are unchoked
C6_UnchokedCount ==
    [][Tick(Me) => (Cardinality(Unchoked(Me)) <= NumberOfPreferredNeighbors + 1)']_vars

\* C7: the CHOKE / UNCHOKE messages sent on a connection strictly alternate,
\* starting with UNCHOKE
C7_Alternate ==
    \A q \in Remote :
        /\ Len(sigLog[Me][q]) = 1 => sigLog[Me][q][1] = "UNCHOKE"
        /\ Len(sigLog[Me][q]) = 2 => sigLog[Me][q][1] # sigLog[Me][q][2]

C7_Witness == \E q \in Remote : sigLog[Me][q] = <<"CHOKE", "UNCHOKE">>

\* C8: while a reader is inside on_message no other thread reads or writes
\* the state of the Peer: the scheduler makes no step, no entry is inserted
\* or removed
C8_Exclusion ==
    [][\A q \in Remote :
          (th[Me][q].pc = "piece" /\ th'[Me][q] = th[Me][q])
              => (neighbors'[Me] = neighbors[Me] /\ sched'[Me] = sched[Me]
                  /\ optimistic'[Me] = optimistic[Me] /\ have'[Me] = have[Me])]_vars

\* C9: download_bytes_window of a neighbor is never negative and, outside
\* the handling of a PIECE, equals the piece bytes counted for the neighbor
\* since the last reset
C9_Window ==
    \A i \in 1..Len(neighbors[Me]) :
        LET n == neighbors[Me][i]
        IN  /\ n.download_bytes_window >= 0
            /\ th[Me][n.peer_id].pc # "piece"
                   => n.download_bytes_window = sinceReset[Me][n.peer_id]

\* C10: only the peer with the larger id dials, two peers have at most one
\* connection, a peer has one neighbor entry per remote id and only for a
\* peer it is connected with
C10_OneConnection ==
    /\ \A c \in conns : c[2] < c[1]
    /\ \A p \in all_peers, q \in all_peers : ~(<<p, q>> \in conns /\ <<q, p>> \in conns)
    /\ \A p \in all_peers :
          /\ Cardinality(Keys(neighbors[p])) = Len(neighbors[p])
          /\ \A q \in Keys(neighbors[p]) : <<p, q>> \in conns \/ <<q, p>> \in conns

C10_Witness ==
    /\ conns = {<<2, 1>>, <<3, 1>>, <<3, 2>>}
    /\ \A p \in all_peers : Keys(neighbors[p]) = all_peers \ {p}

\* the completion condition of the claim, at a poll of Me
C11_Condition ==
    /\ count_have(have[Me]) = num_pieces
    /\ had_any_neighbor[Me] \/ Len(neighbors[Me]) > 0
    /\ \A i \in 1..Len(neighbors[Me]) :
          /\ neighbors[Me][i].bitfield.known
          /\ Pieces \subseteq neighbors[Me][i].bitfield.bits
    /\ {neighbors[Me][i].peer_id : i \in 1..Len(neighbors[Me])} = all_peers \ {Me}

\* C11: a peer leaves the supervision loop by the completion path only at a
\* poll where the condition holds and the timer was armed more than
\* ShutdownDelay before; the timer stays armed only over polls where the
\* condition holds, a poll where it is false disarms the timer
C11_Completion ==
    [][Poll(Me) =>
          /\ proc'[Me] = "done" =>
                (C11_Condition /\ timer[Me] # NoTime /\ timer[Me] + PollPeriod > ShutdownDelay)
          /\ ~C11_Condition => (timer'[Me] = NoTime /\ proc'[Me] = "poll")
          /\ (proc'[Me] = "poll" /\ timer'[Me] # NoTime) =>
                /\ C11_Condition
                /\ timer'[Me] = (IF timer[Me] = NoTime THEN 0 ELSE timer[Me] + PollPeriod)]_vars

C11_Witness == proc[Me] = "done" /\ timer[Me] = ShutdownDelay

\* C12: a send failure on the connection to one neighbor affects only that
\* neighbor: a neighbor whose connection is open at both ends and whose
\* reader is running keeps its connection, its entry and its reader, and
\* the scheduler keeps ticking
C12_Isolation ==
    [][/\ \A a \in FaultRemote :
             (th[Me][a].pc = "loop" /\ ~closed[a][Me] /\ a \in Keys(neighbors[Me]))
                 => (th'[Me][a].pc = "loop" /\ ~closed'[Me][a] /\ a \in Keys(neighbors'[Me]))
       /\ sched[Me].pc = "sleep" => sched'[Me].pc = "sleep"]_vars

\* the remote peers whose next frame, about to be handled by its reader, is in M
Handling(q, M) == th[Me][q].pc = "loop" /\ chan[q][Me] # <<>> /\ Head(chan[q][Me]) \in M

C14_DropMessageOnly ==
    [][\A q \in WireRemote :
          (Handling(q, WrongPieces) /\ Recv(Me, q)) =>
              /\ th'[Me][q].pc = "loop"
              /\ ~closed'[Me][q]
              /\ q \in Keys(neighbors'[Me])
              /\ Get(neighbors'[Me], q) = Get(neighbors[Me], q)]_vars

\* C15: a frame with a type outside 0..7, or a HAVE / REQUEST whose payload
\* is not 4 bytes, makes the reader drop the connection: it is closed, the
\* neighbor entry is removed, the reader ends
C15_DropConnection ==
    [][\A q \in WireRemote :
          (Handling(q, BadFrames) /\ Recv(Me, q)) =>
              /\ th'[Me][q].pc = "none"
              /\ closed'[Me][q]
              /\ q \notin Keys(neighbors'[Me])]_vars

\* the peer the Dialer is waiting for, and the id its handshake carries
DialTarget == earlier_peers(Dialer)[dialIdx[Dialer]]

Mismatch ==
    /\ proc[Dialer] = "hswait"
    /\ hsIn[Dialer][DialTarget] \notin {NoPeer, DialTarget}

\* C16: when the handshake read on an outgoing dial carries another id than
\* the configured one, the dialer closes the socket, registers no neighbor
\* and starts no reader, its other neighbors, their readers and its server
\* are as before and it goes on with start(); no entry and no reader for
\* that peer exist later
C16_Mismatch ==
    /\ [][(Mismatch /\ DialRecv(Dialer)) =>
              /\ closed'[Dialer][DialTarget]
              /\ neighbors'[Dialer] = neighbors[Dialer]
              /\ th'[Dialer] = th[Dialer]
              /\ listening'[Dialer] = listening[Dialer]
              /\ proc'[Dialer] = "dial"]_vars
    /\ [](\A q \in DialRemote :
             closed[Dialer][q] => (q \notin Keys(neighbors[Dialer]) /\ th[Dialer][q].pc = "none"))

\* the dial to peer 2 ended on a mismatch, peer 1 is a neighbor with a
\* running reader and the Dialer is in its supervision loop
C16_Witness ==
    /\ closed[Dialer][2]
    /\ Keys(neighbors[Dialer]) = {1}
    /\ th[Dialer][1].pc = "loop"
    /\ proc[Dialer] = "poll"

\* C17: in the wire order of a connection no PIECE follows a CHOKE without
\* an UNCHOKE in between, and a REQUEST for a held piece that is handled
\* while the last of CHOKE / UNCHOKE sent is UNCHOKE is answered with the
\* PIECE, under every interleaving of the scheduler with the reader
C17_WireOrder ==
    /\ [](\A q \in RaceRemote : sigLog[Me][q] # <<"CHOKE", "PIECE">>)
    /\ [][\A q \in RaceRemote :
             (RequestBegin(Me, q) /\ LastSignal(sigLog[Me][q]) = "UNCHOKE"
                  /\ has_piece(have[Me], Head(chan[q][Me]).idx))
                 => th'[Me][q].pc = "reply"]_vars

\* what the empty peer sends to the seed when it downloads the three pieces
FullSequence ==
    <<<<"INTERESTED", NoIdx>>, <<"REQUEST", 0>>, <<"HAVE", 0>>, <<"REQUEST", 1>>,
      <<"HAVE", 1>>, <<"REQUEST", 2>>, <<"HAVE", 2>>>>

IsPrefix(s, t) == Len(s) <= Len(t) /\ s = SubSeq(t, 1, Len(s))

IsDownloadMsg(e) == e[1] \in {"INTERESTED", "NOT_INTERESTED", "REQUEST", "HAVE"}

\* the interest, request and have messages peer 2 has sent to the seed, in
\* wire order (the choke signals of its own scheduler are left out)
SentToSeed == SelectSeq(sigLog[2][SeedId], IsDownloadMsg)

\* the order of the messages peer 2 has sent to peer 1: INTERESTED once the
\* BITFIELD is in, REQUEST once unchoked, REQUEST(i) once PIECE(i-1) is in,
\* HAVE(i) once PIECE(i) is in and before the next REQUEST
C18_Order ==
    LET sent == SentToSeed
    IN  /\ IsPrefix(sent, FullSequence)
        /\ sent # <<>> =>
              (SeedId \in Keys(neighbors[2]) => Get(neighbors[2], SeedId).bitfield.known)
        /\ \A k \in 1..Len(sent) :
              /\ sent[k][1] = "REQUEST" =>
                    /\ sent[k][2] > 0 => (sent[k][2] - 1) \in have[2]
                    /\ SeedId \in Keys(neighbors[2]) => ~Get(neighbors[2], SeedId).peer_choking_me
              /\ sent[k][1] = "HAVE" => sent[k][2] \in have[2]

\* C18: in the two-peer swarm the empty peer sends to the seed INTERESTED,
\* REQUEST(0), HAVE(0), REQUEST(1), HAVE(1), REQUEST(2), HAVE(2), in this
\* order and each after the message it answers has arrived
C18_Sequence ==
    [](dialFailed = {}) => ([]C18_Order /\ <>(SentToSeed = FullSequence))

\* the bits of the local bitfield past the last piece
UnusedBits == num_pieces..(BitfieldBits - 1)

\* C19: for every peer, countHave() is the number of piece indices
\* i < numPieces with hasPiece(i) and is at most numPieces; the unused bits
\* of the last bitfield byte are zero
C19_CountHave ==
    \A p \in Ids :
        /\ count_have(have[p]) = Cardinality({i \in Pieces : has_piece(have[p], i)})
        /\ count_have(have[p]) <= num_pieces
        /\ \A i \in UnusedBits : ~has_piece(have[p], i)

\* Me started empty, holds pieces it was sent, and has closed a connection
\* on a PIECE it could not store
C19_Witness ==
    /\ have[Me] # {} /\ have[Me] # Pieces
    /\ \E q \in StoreRemote : closed[Me][q]

\* the entries of the neighbor map of Me other than the entry of q
Others(nbs, q) == SelectSeq(nbs, LAMBDA n : n.peer_id # q)

Sent(q) == on_message(neighbors[Me], have[Me], q, Head(chan[q][Me])).out

\* C21: after HAVE(i) from neighbor n is handled the remote bitfield of n is
\* present and has bit i set, also when no BITFIELD was received from n; if
\* the store lacks piece i and am_interested was false, am_interested
\* becomes true and exactly one INTERESTED is sent
C21_Have ==
    [][\A q \in InterestRemote :
          (Handling(q, Haves) /\ Recv(Me, q)) =>
              LET m == Head(chan[q][Me])
                  n == Get(neighbors[Me], q)
                  after == Get(neighbors'[Me], q)
              IN  /\ q \in Keys(neighbors'[Me])
                  /\ after.bitfield.known
                  /\ bit_is_set(after.bitfield, m.idx)
                  /\ (~has_piece(have[Me], m.idx) /\ ~n.am_interested) =>
                        after.am_interested /\ Sent(q) = <<To(q, make_interested)>>]_vars

\* the part of C21 for a neighbor whose BITFIELD was received before
C21_HaveAfterBitfield ==
    [][\A q \in InterestRemote :
          (Handling(q, Haves) /\ Recv(Me, q) /\ Get(neighbors[Me], q).bitfield.known) =>
              LET m == Head(chan[q][Me])
                  n == Get(neighbors[Me], q)
                  after == Get(neighbors'[Me], q)
              IN  /\ q \in Keys(neighbors'[Me])
                  /\ after.bitfield.known
                  /\ bit_is_set(after.bitfield, m.idx)
                  /\ (~has_piece(have[Me], m.idx) /\ ~n.am_interested) =>
                        after.am_interested /\ Sent(q) = <<To(q, make_interested)>>]_vars

\* C22: after BITFIELD(b) from neighbor n is handled the remote bitfield of n
\* is b and am_interested is true exactly when b has a piece index below
\* num_pieces that the store lacks; INTERESTED is sent only when the flag
\* goes from false to true, NOT_INTERESTED only when it goes from true to
\* false, nothing when it does not change
C22_Bitfield ==
    [][\A q \in InterestRemote :
          (Handling(q, Bitfields) /\ Recv(Me, q)) =>
              LET m == Head(chan[q][Me])
                  n == Get(neighbors[Me], q)
                  after == Get(neighbors'[Me], q)
                  wanted == \E i \in Pieces : i \in m.bits /\ ~has_piece(have[Me], i)
              IN  /\ q \in Keys(neighbors'[Me])
                  /\ after.bitfield.known /\ after.bitfield.bits = m.bits
                  /\ after.am_interested = wanted
                  /\ Sent(q) = IF ~n.am_interested /\ after.am_interested
                               THEN <<To(q, make_interested)>>
                               ELSE IF n.am_interested /\ ~after.am_interested
                               THEN <<To(q, make_not_interested)>>
                               ELSE <<>>]_vars

\* Me lacks pieces: it is interested in neighbor 2 whose BITFIELD has pieces,
\* not in neighbor 3 whose BITFIELD has an unused bit only
C22_Witness ==
    /\ have[Me] = {}
    /\ {2, 3} \subseteq Keys(neighbors[Me])
    /\ Get(neighbors[Me], 2).bitfield = [known |-> TRUE, bits |-> {0, 1}]
    /\ Get(neighbors[Me], 2).am_interested
    /\ Get(neighbors[Me], 3).bitfield = [known |-> TRUE, bits |-> {num_pieces}]
    /\ ~Get(neighbors[Me], 3).am_interested

\* the entry of q has just been created in the neighbor map of p
Registered(p, q) == q \notin Keys(neighbors[p]) /\ q \in Keys(neighbors'[p])

\* C23 as stated: a NeighborState created by register_connection starts with
\* am_choking true, peer_choking_me false, am_interested false,
\* peer_interested_me false, no remote bitfield and download_bytes_window 0
C23_Stated ==
    [][\A p, q \in Ids :
          Registered(p, q) =>
              LET n == Get(neighbors'[p], q)
              IN  /\ n.am_choking /\ ~n.peer_choking_me
                  /\ ~n.am_interested /\ ~n.peer_interested_me
                  /\ ~n.bitfield.known
                  /\ n.download_bytes_window = 0]_vars

\* C23 amended: a NeighborState created by register_connection starts with
\* am_choking true, peer_choking_me true, am_interested false,
\* peer_interested_me false, no remote bitfield and download_bytes_window 0
C23_Defaults ==
    [][\A p, q \in Ids :
          Registered(p, q) =>
              LET n == Get(neighbors'[p], q)
              IN  /\ n.am_choking /\ n.peer_choking_me
                  /\ ~n.am_interested /\ ~n.peer_interested_me
                  /\ ~n.bitfield.known
                  /\ n.download_bytes_window = 0]_vars

\* the seed has accepted peer 2 and peer 2 has registered the seed, and
\* neither has handled a frame of the other yet
C23_Witness ==
    /\ 2 \in Keys(neighbors[SeedId]) /\ SeedId \in Keys(neighbors[2])
    /\ Get(neighbors[SeedId], 2).peer_choking_me
    /\ Get(neighbors[2], SeedId).peer_choking_me
    /\ ~Get(neighbors[2], SeedId).bitfield.known
    /\ sigLog[SeedId][2] = <<>> /\ sigLog[2][SeedId] = <<>>

\* the piece indices the remote bitfield bf has and the store hv lacks
Lacking(bf, hv) == {i \in 0..(num_pieces - 1) : i \in bf.bits /\ i \notin hv}

\* what a request for the next piece sends to q, for the entry n of q and the
\* store hv: the smallest lacking index, else NOT_INTERESTED if interested
NextRequest(q, n, hv) ==
    IF n.peer_choking_me \/ ~n.bitfield.known THEN <<>>
    ELSE IF Lacking(n.bitfield, hv) # {}
    THEN <<To(q, make_request(CHOOSE i \in Lacking(n.bitfield, hv) :
                                 \A j \in Lacking(n.bitfield, hv) : i <= j))>>
    ELSE IF n.am_interested THEN <<To(q, make_not_interested)>>
    ELSE <<>>

\* C24: for a neighbor with a known remote bitfield _choose_piece_to_request
\* returns the smallest index the remote has and the store lacks, and absent
\* exactly when there is none; when it returns absent for a neighbor that
\* does not choke us and am_interested is true, the flag is cleared, one
\* NOT_INTERESTED is sent and no REQUEST
C24_FirstUseful ==
    /\ [](\A q \in Keys(neighbors[Me]) :
            LET n == Get(neighbors[Me], q)
                c == choose_piece_to_request(have[Me], n)
            IN  n.bitfield.known =>
                  /\ c = NoIdx <=> Lacking(n.bitfield, have[Me]) = {}
                  /\ c # NoIdx =>
                        /\ c \in Lacking(n.bitfield, have[Me])
                        /\ \A j \in Lacking(n.bitfield, have[Me]) : c <= j)
    /\ [][\A q \in InterestRemote :
            (Handling(q, {make_unchoke}) /\ Recv(Me, q)) =>
                LET n == [Get(neighbors[Me], q) EXCEPT !.peer_choking_me = FALSE]
                    after == Get(neighbors'[Me], q)
                IN  /\ Sent(q) = NextRequest(q, n, have[Me])
                    /\ after.am_interested =
                          (n.am_interested /\
                             (~n.bitfield.known \/ Lacking(n.bitfield, have[Me]) # {}))]_vars
    /\ [][\A q \in InterestRemote :
            (Handling(q, GoodPieces) /\ Recv(Me, q) /\ ~is_complete(have'[Me])) =>
                LET n == Get(neighbors[Me], q)
                    k == Len(neighbors[Me])
                IN  SubSeq(Sent(q), k + 1, Len(Sent(q))) = NextRequest(q, n, have'[Me])]_vars

\* Me holds the two pieces neighbor 2 has announced, is unchoked by it, and
\* its interest in neighbor 2 is cleared
C24_Witness ==
    /\ have[Me] = {0, 1}
    /\ 2 \in Keys(neighbors[Me])
    /\ Get(neighbors[Me], 2).bitfield = [known |-> TRUE, bits |-> {0, 1}]
    /\ ~Get(neighbors[Me], 2).peer_choking_me
    /\ ~Get(neighbors[Me], 2).am_interested
    /\ sinceReset[Me][2] > 0

\* the number of HAVE(i) frames in the sequence of frames s
CountHave(s, i) == Cardinality({k \in 1..Len(s) : s[k].type = "HAVE" /\ s[k].idx = i})

C26_TopSet ==
    [][Tick(Me) =>
          LET preferred == sched'[Me].preferred
              bytes(q) == Get(neighbors[Me], q).download_bytes_window
          IN  /\ preferred \subseteq Keys(neighbors[Me])
              /\ Cardinality(preferred) = Min(NumberOfPreferredNeighbors, Len(neighbors[Me]))
              /\ \A a \in preferred : \A b \in Keys(neighbors[Me]) \ preferred :
                    bytes(a) >= bytes(b)]_vars

\* neighbor 3, registered after neighbor 2, is the preferred neighbor of the
\* last tick, for the piece it sent
C26_Witness ==
    /\ Keys(neighbors[Me]) = {2, 3}
    /\ neighbors[Me][1].peer_id = 2
    /\ sched[Me].preferred = {3}
    /\ has_piece(have[Me], 0)

\* both leechers are in the neighbor map, with equal download counters
Tied ==
    /\ Keys(neighbors[Me]) = TieRemote
    /\ \A q \in TieRemote : Get(neighbors[Me], q).download_bytes_window = 0

\* C27: ties in the ranking are broken at random: with two leechers whose
\* byte counts stay equal and NumberOfPreferredNeighbors = 1, each of them
\* is the preferred neighbor of some tick, again and again, not always the
\* same one
C27_Ties ==
    <>[]Tied => \A q \in TieRemote : []<>(sched[Me].preferred = {q})

\* what the code does with a tie: the neighbor registered first is preferred
C27_FirstInMap ==
    [][(Tied /\ Tick(Me)) => sched'[Me].preferred = {neighbors[Me][1].peer_id}]_vars

\* the neighbor map of Me at the optimistic rotation of the tick being taken:
\* the counters are reset and the regular choke decisions are applied
AtRotation ==
    set_preferred_neighbors(ResetStats(neighbors[Me]), sched'[Me].preferred, optimistic[Me]).nbs

\* the neighbors of the map nbs that are choked and interested
ChokedInterested(nbs) ==
    {nbs[i].peer_id : i \in {j \in 1..Len(nbs) : nbs[j].am_choking /\ nbs[j].peer_interested_me}}

\* C28: at every optimistic rotation the new optimistic slot is a neighbor
\* that is choked and interested at selection time; when no neighbor is both
\* the slot becomes absent
C28_OptimisticSlot ==
    [][Tick(Me) =>
          IF ChokedInterested(AtRotation) = {}
          THEN optimistic'[Me] = NoPeer
          ELSE optimistic'[Me] \in ChokedInterested(AtRotation)]_vars

\* the part of C28 the code keeps: the slot is a choked neighbor, or absent
\* when no neighbor is choked
C28_ChokedOnly ==
    [][Tick(Me) =>
          IF choked_peers(AtRotation) = {}
          THEN optimistic'[Me] = NoPeer
          ELSE optimistic'[Me] \in choked_peers(AtRotation)]_vars

Max(a, b) == IF a > b THEN a ELSE b

\* the number of the tick being taken, counted from the last rotation (from
\* the start of the scheduler before the first one)
TickNumber == (sched[Me].elapsed \div sched[Me].unchoking_interval) + 1

\* the tick being taken runs the optimistic rotation
Rotates == sched'[Me].elapsed = 0

\* C29: with ticks exactly unchoking_interval apart the optimistic rotation
\* runs on every K-th tick, K = max(1, floor(optimistic_interval /
\* unchoking_interval)), and on no other tick
C29_EveryKth ==
    [][RotateTick(Me) =>
          LET K == Max(1, sched[Me].optimistic_interval \div sched[Me].unchoking_interval)
          IN  Rotates <=> TickNumber = K]_vars

\* what the code does: the ratio of the intervals is rounded up
C29_RoundsUp ==
    [][RotateTick(Me) =>
          LET u == sched[Me].unchoking_interval
              K == (sched[Me].optimistic_interval + u - 1) \div u
          IN  Rotates <=> TickNumber = K]_vars

\* the CHOKE and UNCHOKE frames the tick being taken sends, in order
TickSends ==
    LET r1 == set_preferred_neighbors(ResetStats(neighbors[Me]), sched'[Me].preferred,
                                      optimistic[Me])
        r2 == set_optimistic_unchoke(r1.nbs, optimistic'[Me])
    IN  r1.out \o r2.out

\* C30: when the neighbors are at most NumberOfPreferredNeighbors every
\* optimistic rotation leaves the optimistic slot absent, and no tick sends
\* the same neighbor both a CHOKE and an UNCHOKE
C30_AllPreferred ==
    [][(Tick(Me) /\ Len(neighbors[Me]) <= NumberOfPreferredNeighbors) =>
          /\ optimistic'[Me] = NoPeer
          /\ \A i, j \in 1..Len(TickSends) :
                TickSends[i].to = TickSends[j].to =>
                    TickSends[i].msg.type = TickSends[j].msg.type]_vars

\* the only neighbor left is preferred and unchoked, the slot is absent, and
\* the other remote peer has been a neighbor and is gone
C30_Witness ==
    /\ Len(neighbors[Me]) = 1
    /\ sched[Me].preferred = Keys(neighbors[Me])
    /\ ~neighbors[Me][1].am_choking
    /\ optimistic[Me] = NoPeer
    /\ \E q \in TieRemote : q \notin Keys(neighbors[Me]) /\ closed[q][Me]

\* C31: in every reachable state the optimistic slot is absent or the peer
\* id of a neighbor in the neighbor map; it does not keep naming a neighbor
\* whose reader has ended and whose entry was removed
C31_SlotIsNeighbor ==
    optimistic[Me] = NoPeer \/ optimistic[Me] \in Keys(neighbors[Me])

\* the slot is left as it is by every step that is not a tick
C31_SlotSetByTick ==
    [][optimistic'[Me] # optimistic[Me] => Tick(Me)]_vars

\* a REQUEST of p to n is on its way, or the PIECE that answers one is
Outstanding(p, n) ==
    \/ \E k \in 1..Len(chan[p][n]) : chan[p][n][k].type = "REQUEST"
    \/ \E k \in 1..Len(chan[n][p]) : chan[n][p][k].type = "PIECE"

\* p is unchoked by n and interested in n, n has announced a piece p lacks,
\* and no REQUEST of p to n is outstanding
Stalled(p, n) ==
    /\ n \in Keys(neighbors[p])
    /\ ~Get(neighbors[p], n).peer_choking_me
    /\ Get(neighbors[p], n).am_interested
    /\ Useful(have[p], Get(neighbors[p], n)) # {}
    /\ ~Outstanding(p, n)

\* C32: no download stall while unchoked: a peer never remains for ever
\* unchoked by and interested in a neighbor that has announced a piece it
\* lacks, with no REQUEST outstanding
C32_NoStall ==
    \A p, n \in {1, 2} : []<>(~Stalled(p, n))

\* the positions of the BITFIELD frames among what p has sent to q
BitfieldAt(p, q) == {k \in 1..Len(sigLog[p][q]) : sigLog[p][q][k][1] = "BITFIELD"}

\* C33: on every connection a peer sends BITFIELD at most once, exactly when
\* count_have() > 0 at the end of the handshake, and then as the first
\* message of the connection: no CHOKE, UNCHOKE or HAVE of the scheduler or
\* of another reader is sent on the connection before it
C33_BitfieldFirst ==
    /\ BitfieldAt(SeedId, 2) \subseteq {1}
    /\ th[SeedId][2].pc = "loop" => BitfieldAt(SeedId, 2) = {1}
    /\ BitfieldAt(2, SeedId) = {}

\* the part of C33 the code keeps: at most one BITFIELD on a connection,
\* sent by the peer that holds pieces at the end of the handshake
C33_BitfieldOnce ==
    /\ Cardinality(BitfieldAt(SeedId, 2)) <= 1
    /\ th[SeedId][2].pc = "loop" => Cardinality(BitfieldAt(SeedId, 2)) = 1
    /\ BitfieldAt(2, SeedId) = {}

====
